---- MODULE Spec2Model ----
(***************************************************************************)
(* Model of clairvoyance (src/src/clairvoyance.cc): the page-table         *)
(* iterator PageTableIterator_t, the protection folder PropertiesFromPtes, *)
(* and the tape-building loop of main().                                   *)
(*                                                                         *)
(* The hardware sizes are scaled down so that the walks are small: a page  *)
(* holds NumberEntries = PageSize / EntrySize entries (512 in the program),*)
(* the Reserved field of a virtual address has ReservedOnes + 1 values     *)
(* (2^16 in the program) and the gap filler stops after MaxGapEntries      *)
(* pixels (10'000 in the program).  All address arithmetic is the          *)
(* program's, done on the scaled sizes.                                    *)
(***************************************************************************)
EXTENDS Integers, Sequences, FiniteSets, TLC

\* ------------------------------------------------------------------ bounds
\* Page::Size, scaled (0x1000 in the program).
PageSize == 16
\* sizeof(uint64_t): the size of one page-table entry.
EntrySize == 8
\* Number of physical pages of the dump that hold page tables (pfn 0..NumTables-1).
NumTables == 2
\* Largest value of the Reserved field of a virtual address (0xFFFF in the program).
ReservedOnes == 3
\* MaxGapEntries, scaled (10'000 in the program).
MaxGapEntries == 3
\* Largest order of the Hilbert curves that are converted both ways.
MaxOrder == 4

\* ------------------------------------------------------------- page tables
\* PageTableIterator_t::NumberEntries = Page::Size / sizeof(uint64_t).
NumberEntries == PageSize \div EntrySize

\* Bit 8 of a 9-bit index: the value of the top bit of an index.
HalfEntries == (NumberEntries + 1) \div 2

\* Number of values of the 64-bit word (scaled): Reserved | 4 indices | offset.
U64Modulus ==
  (ReservedOnes + 1) * NumberEntries * NumberEntries * NumberEntries
    * NumberEntries * PageSize

\* Page frame numbers an entry can hold; frame NumTables is not in the dump.
TablePfns == 0 .. (NumTables - 1)
AbsentPfn == NumTables
Pfns == 0 .. NumTables

\* nullptr, for table pointers (a table pointer is the frame it points to).
nullptr == -1

\* PteHardware_t: the bits the program reads.
PteHardware_t(Present, Write, UserAccessible, LargePage, PageFrameNumber, NoExecute) ==
  [Present |-> Present, Write |-> Write, UserAccessible |-> UserAccessible,
   LargePage |-> LargePage, PageFrameNumber |-> PageFrameNumber,
   NoExecute |-> NoExecute]

\* PteHardware_t(0): the all-zero entry.
ZeroPte == PteHardware_t(FALSE, FALSE, FALSE, FALSE, 0, FALSE)

\* Page::AddressFromPfn(Pfn).
AddressFromPfn(Pfn) == Pfn * PageSize

\* Page::AddressFromPfn(Base, Pfn).
AddressFromPfn2(Base, Pfn) == (Base + (Pfn * PageSize)) % U64Modulus

\* Properties_t: the stable ordinal encoding of the nine classes.
None == 0
UserRead == 1
UserReadExec == 2
UserReadWrite == 3
UserReadWriteExec == 4
KernelRead == 5
KernelReadExec == 6
KernelReadWrite == 7
KernelReadWriteExec == 8

\* PageType_t.
PageType_t == {"Huge", "Large", "Normal"}

\* 1024 * 1024 * 1024: the bytes a PDPT entry maps, scaled.
HugeBytes == NumberEntries * NumberEntries * PageSize
\* 1024 * 1024 * 2: the bytes a PD entry maps, scaled.
LargeBytes == NumberEntries * PageSize

\* Mutant of VirtualAddress_t: the PdIndex(PdeIndex) call is left out.
VirtualAddressWithoutPdIndex(Pml4eIndex, PdpteIndex, PdeIndex, PteIndex) ==
  [Offset    |-> 0,
   PtIndex   |-> PteIndex % NumberEntries,
   PdIndex   |-> 0,
   PdptIndex |-> PdpteIndex % NumberEntries,
   Pml4Index |-> Pml4eIndex % NumberEntries,
   Reserved  |-> IF (Pml4eIndex \div HalfEntries) % 2 = 1
                 THEN (2 * ReservedOnes + 1) % (ReservedOnes + 1)
                 ELSE 0]

\* VirtualAddress_t(Pml4eIndex, PdpteIndex, PdeIndex, PteIndex): the setters
\* truncate each index to its field; Pml4Index() also sets Reserved, from the
\* top bit of the index, to 0b11111111111111111 truncated to the field.
VirtualAddress_t(Pml4eIndex, PdpteIndex, PdeIndex, PteIndex) ==
  [Offset    |-> 0,
   PtIndex   |-> PteIndex % NumberEntries,
   PdIndex   |-> PdeIndex % NumberEntries,
   PdptIndex |-> PdpteIndex % NumberEntries,
   Pml4Index |-> Pml4eIndex % NumberEntries,
   Reserved  |-> IF (Pml4eIndex \div HalfEntries) % 2 = 1
                 THEN (2 * ReservedOnes + 1) % (ReservedOnes + 1)
                 ELSE 0]

\* VirtualAddress_t::U64(): the word the bitfields overlay.
U64(Va) ==
  ((((Va.Reserved * NumberEntries + Va.Pml4Index) * NumberEntries
       + Va.PdptIndex) * NumberEntries + Va.PdIndex) * NumberEntries
       + Va.PtIndex) * PageSize + Va.Offset

\* VirtualAddress_t(Value): the bitfields of a word.
VirtualAddressOf(Value) ==
  LET Page == Value \div PageSize
      N == NumberEntries
  IN [Offset    |-> Value % PageSize,
      PtIndex   |-> Page % N,
      PdIndex   |-> (Page \div N) % N,
      PdptIndex |-> (Page \div (N * N)) % N,
      Pml4Index |-> (Page \div (N * N * N)) % N,
      Reserved  |-> (Page \div (N * N * N * N)) % (ReservedOnes + 1)]

\* PropertiesFromPtes: auto And = [](const bool A, const bool B) { return A && B; }.
And(A, B) == A /\ B

\* PropertiesFromPtes: auto Or = [](const bool A, const bool B) { return A || B; }.
Or(A, B) == A \/ B

\* Comp(A, B), for Comp one of the two lambdas, named "And" and "Or".
Apply(Comp, A, B) == IF Comp = "And" THEN And(A, B) ELSE Or(A, B)

\* The CalculateBit macro of PropertiesFromPtes: Comp over Pml4e and Pdpte,
\* then over Pde unless Pdpte is a large page, then over Pte unless Pde is one.
CalculateBit(FieldName, Comp, Pml4e, Pdpte, Pde, Pte) ==
  LET B0 == Apply(Comp, Pml4e[FieldName], Pdpte[FieldName])
      B1 == IF ~Pdpte.LargePage THEN Apply(Comp, B0, Pde[FieldName]) ELSE B0
      B2 == IF ~Pde.LargePage THEN Apply(Comp, B1, Pte[FieldName]) ELSE B1
  IN B2

\* Mutant of PropertiesFromPtes: the bits of the deepest entry alone decide.
PropertiesFromDeepestEntry(Pml4e, Pdpte, Pde, Pte) ==
  LET Leaf == IF Pdpte.LargePage THEN Pdpte ELSE IF Pde.LargePage THEN Pde ELSE Pte
  IN IF Leaf.UserAccessible
     THEN IF Leaf.Write
          THEN (IF Leaf.NoExecute THEN UserReadWrite ELSE UserReadWriteExec)
          ELSE (IF Leaf.NoExecute THEN UserRead ELSE UserReadExec)
     ELSE IF Leaf.Write
          THEN (IF Leaf.NoExecute THEN KernelReadWrite ELSE KernelReadWriteExec)
          ELSE (IF Leaf.NoExecute THEN KernelRead ELSE KernelReadExec)

\* Mutant of PropertiesFromPtes: a path with no user access, no write and no
\* execute is given the class None.
PropertiesNoneWhenNoAccess(Pml4e, Pdpte, Pde, Pte) ==
  LET UserAccessible == CalculateBit("UserAccessible", "And", Pml4e, Pdpte, Pde, Pte)
      Write == CalculateBit("Write", "And", Pml4e, Pdpte, Pde, Pte)
      NoExecute == CalculateBit("NoExecute", "Or", Pml4e, Pdpte, Pde, Pte)
  IN IF UserAccessible
     THEN IF Write
          THEN (IF NoExecute THEN UserReadWrite ELSE UserReadWriteExec)
          ELSE (IF NoExecute THEN UserRead ELSE UserReadExec)
     ELSE IF Write
          THEN (IF NoExecute THEN KernelReadWrite ELSE KernelReadWriteExec)
          ELSE (IF NoExecute THEN None ELSE KernelReadExec)

\* PropertiesFromPtes(Pml4e, Pdpte, Pde, Pte).
PropertiesFromPtes(Pml4e, Pdpte, Pde, Pte) ==
  LET UserAccessible == CalculateBit("UserAccessible", "And", Pml4e, Pdpte, Pde, Pte)
      Write == CalculateBit("Write", "And", Pml4e, Pdpte, Pde, Pte)
      NoExecute == CalculateBit("NoExecute", "Or", Pml4e, Pdpte, Pde, Pte)
  IN IF UserAccessible
     THEN IF Write
          THEN (IF NoExecute THEN UserReadWrite ELSE UserReadWriteExec)
          ELSE (IF NoExecute THEN UserRead ELSE UserReadExec)
     ELSE IF Write
          THEN (IF NoExecute THEN KernelReadWrite ELSE KernelReadWriteExec)
          ELSE (IF NoExecute THEN KernelRead ELSE KernelReadExec)

\* Mutant of GetNumberPixels: a Large page is given the single pixel of a
\* Normal one.
GetNumberPixelsLargeAsNormal(PageType) ==
  CASE PageType = "Huge" -> HugeBytes \div PageSize
    [] PageType = "Large" -> 1
    [] PageType = "Normal" -> 1

\* GetNumberPixels(PageType).
GetNumberPixels(PageType) ==
  CASE PageType = "Huge" -> HugeBytes \div PageSize
    [] PageType = "Large" -> LargeBytes \div PageSize
    [] PageType = "Normal" -> 1

\* ------------------------------------------------------ 32-bit words
\* A uint32_t (C++) or an int32 operand of a bitwise operator (JavaScript) is
\* kept as the signed integer with the same 32 bits: bit 31 set is a negative
\* number.

\* Bit I of a word.
BitOf(Word, I) ==
  IF I = 31 THEN (IF Word < 0 THEN 1 ELSE 0) ELSE (Word \div (2 ^ I)) % 2

\* The value of an expression whose operands were computed before it: an
\* operand is computed once, as the only member of a set, before the
\* expression that uses it.
The(Values) == CHOOSE Value \in Values : TRUE

\* The value of the eight bits Bits[B .. B + 7].
ByteOf(Bits, B) ==
  ((Bits[B] + (2 * Bits[B + 1])) + ((4 * Bits[B + 2]) + (8 * Bits[B + 3])))
  + (((16 * Bits[B + 4]) + (32 * Bits[B + 5]))
     + ((64 * Bits[B + 6]) + (128 * Bits[B + 7])))

\* The word whose bits are Bits[0..31].
WordOf(Bits) ==
  The({((IF Hi >= 32768 THEN Hi - 65536 ELSE Hi) * 65536) + Lo :
         Lo \in {ByteOf(Bits, 0) + (256 * ByteOf(Bits, 8))},
         Hi \in {ByteOf(Bits, 16) + (256 * ByteOf(Bits, 24))}})

\* A ^ B.
Xor32(A, B) ==
  The({WordOf([I \in 0 .. 31 |-> (BitOf(Va, I) + BitOf(Vb, I)) % 2]) :
         Va \in {A}, Vb \in {B}})

\* A & B.
And32(A, B) ==
  The({WordOf([I \in 0 .. 31 |-> BitOf(Va, I) * BitOf(Vb, I)]) :
         Va \in {A}, Vb \in {B}})

\* A | B.
Or32(A, B) ==
  The({WordOf([I \in 0 .. 31 |-> IF BitOf(Va, I) + BitOf(Vb, I) > 0 THEN 1 ELSE 0]) :
         Va \in {A}, Vb \in {B}})

\* A << K, for K in 0..31: the bits shifted out are lost.
Shl32(A, K) ==
  The({WordOf([I \in 0 .. 31 |-> IF I >= K THEN BitOf(Va, I - K) ELSE 0]) :
         Va \in {A}})

\* A >> K on a uint32_t: zeros are shifted in.
Shr32(A, K) ==
  The({WordOf([I \in 0 .. 31 |-> IF I + K <= 31 THEN BitOf(Va, I + K) ELSE 0]) :
         Va \in {A}})

\* A >> K in JavaScript: the sign bit is shifted in.
Sar32(A, K) ==
  The({WordOf([I \in 0 .. 31 |->
                 IF I + K <= 31 THEN BitOf(Va, I + K) ELSE BitOf(Va, 31)]) :
         Va \in {A}})

\* A + B on uint32_t: the sum modulo 2^32, by 16-bit halves.
Add32(A, B) ==
  The({The({The({((IF Hi >= 32768 THEN Hi - 65536 ELSE Hi) * 65536) + (Lo % 65536) :
                   Hi \in {((Va \div 65536) + (Vb \div 65536) + (Lo \div 65536))
                            % 65536}}) :
              Lo \in {(Va % 65536) + (Vb % 65536)}}) :
         Va \in {A}, Vb \in {B}})

\* -Xi on uint32_t, for Xi 0 or 1: 0 or 0xFFFFFFFF.
Neg32(Xi) == IF Xi = 0 THEN 0 ELSE -1

\* ------------------------------------------------------- Hilbert curve
RECURSIVE DistanceLoop(_, _, _, _)

\* Hilbert::DistanceFromCoordinates: for (int Idx = Order - 1; Idx >= 0; Idx--),
\* from Idx on.  S stays below 4^Order, so it does not wrap for Order <= 15.
DistanceLoop(X, Y, S, Idx) ==
  IF Idx >= 0
  THEN LET Xi == And32(Shr32(X, Idx), 1)
           Yi == And32(Shr32(Y, Idx), 1)
           X1 == IF Yi = 0 THEN Xor32(Y, Neg32(Xi)) ELSE X
           Y1 == IF Yi = 0 THEN Xor32(X, Neg32(Xi)) ELSE Y
           After == {<<X1, Y1, 4 * S + 2 * Xi + Xor32(Xi, Yi)>>}
       IN The({DistanceLoop(Now[1], Now[2], Now[3], Idx - 1) : Now \in After})
  ELSE S

\* Mutant of DistanceFromCoordinates: the loop starts at bit Order - 2.
DistanceFromLowerBits(X_, Y_, Order) == DistanceLoop(X_, Y_, 0, Order - 2)

\* Hilbert::DistanceFromCoordinates(X_, Y_, Order).
DistanceFromCoordinates(X_, Y_, Order) == DistanceLoop(X_, Y_, 0, Order - 1)

\* Hilbert::CoordinatesFromDistance: Cs ^= (Cs >> K).
PrefixXor(Cs_, K) == The({Xor32(Cs, Shr32(Cs, K)) : Cs \in {Cs_}})

\* Mutant of Unshuffle: the bits of T are not put back K places higher.
UnshuffleWithoutShift(S_, K, Mask) ==
  The({The({Xor32(S, T) : T \in {And32(Xor32(S, Shr32(S, K)), Mask)}}) :
         S \in {S_}})

\* Hilbert::CoordinatesFromDistance: T = (S ^ (S >> K)) & Mask;
\* S ^= T ^ (T << K).
Unshuffle(S_, K, Mask) ==
  The({The({Xor32(S, Xor32(T, Shl32(T, K))) :
              T \in {And32(Xor32(S, Shr32(S, K)), Mask)}}) :
         S \in {S_}})

\* Hilbert::CoordinatesFromDistance, from Sr to S &= (1 << (2 * Order)) - 1:
\* Sr, the prefix scan Cs, Swap and Comp, T, and the new S.
Untangle(S_, Order) ==
  The({The({The({The({And32(Xor32(S, Xor32(Sr, Xor32(T, Shl32(T, 1)))),
                            Shl32(1, 2 * Order) - 1) :
                        T \in {Xor32(And32(S, And32(Cs, 1431655765)),
                                     And32(Shr32(Cs, 1), 1431655765))}}) :
                   Cs \in {PrefixXor(PrefixXor(PrefixXor(PrefixXor(
                              Xor32(Add32(And32(S, 1431655765), Sr), 1431655765),
                              2), 4), 8), 16)}}) :
              Sr \in {And32(Shr32(S, 1), 1431655765)}}) :
         S \in {S_}})

\* The statements of Hilbert::CoordinatesFromDistance up to the last
\* assignment of S.  0x55555555 << 2 * Order drops the bits shifted out.
CoordinatesWord(Dist, Order) ==
  Unshuffle(Unshuffle(Unshuffle(Unshuffle(
    Untangle(Or32(Dist, Shl32(1431655765, 2 * Order)), Order),
    1, 572662306), 2, 202116108), 4, 15728880), 8, 65280)

\* Mutant of CoordinatesFromDistance: the halves of S are returned in the
\* other order.
CoordinatesSwapped(Dist, Order) ==
  The({<<And32(S, 65535), Shr32(S, 16)>> : S \in {CoordinatesWord(Dist, Order)}})

\* Hilbert::CoordinatesFromDistance(Dist, Order): std::make_pair(S >> 16,
\* S & 0xffff).
CoordinatesFromDistance(Dist, Order) ==
  The({<<Shr32(S, 16), And32(S, 65535)>> : S \in {CoordinatesWord(Dist, Order)}})

\* Hilbert::Width(Order) and Hilbert::Height(Order): 1ULL << Order.
Width(Order) == 2 ^ Order
Height(Order) == 2 ^ Order

\* ----------------------------------------------------------------- text
\* A line of text is the sequence of its characters.

\* The digits, by value.
Digits ==
  <<"0", "1", "2", "3", "4", "5", "6", "7", "8", "9", "a", "b", "c", "d", "e", "f">>

RECURSIVE Formatted(_, _)

\* The digits of a non-negative number in a base, without leading zeros.
Formatted(Number, Base) ==
  IF Number < Base
  THEN <<Digits[Number + 1]>>
  ELSE Append(Formatted(Number \div Base, Base), Digits[(Number % Base) + 1])

\* NaN, which no digit and no parsed number equals.
NaN == -1

\* The value of a character as a digit of a base, NaN when it is not one.
DigitValue(Char, Base) ==
  IF \E V \in 1 .. Base : Digits[V] = Char
  THEN (CHOOSE V \in 1 .. Base : Digits[V] = Char) - 1
  ELSE NaN

RECURSIVE Parsed(_, _, _, _)

\* The number a line spells in a base from character K on, after the value
\* Acc of the characters before; NaN when a character is not a digit.
Parsed(Line, Base, K, Acc) ==
  IF K > Len(Line)
  THEN Acc
  ELSE IF DigitValue(Line[K], Base) = NaN
       THEN NaN
       ELSE Parsed(Line, Base, K + 1, (Acc * Base) + DigitValue(Line[K], Base))

\* Line.startsWith('0x').
StartsWith0x(Line) == Len(Line) >= 2 /\ Line[1] = "0" /\ Line[2] = "x"

\* Number(Line): the empty line is 0, a line of decimal digits is its value,
\* 0x followed by hexadecimal digits is its value, anything else is NaN.
Number(Line) ==
  IF Line = <<>> THEN 0
  ELSE IF StartsWith0x(Line)
       THEN (IF Len(Line) = 2 THEN NaN ELSE Parsed(Line, 16, 3, 0))
       ELSE Parsed(Line, 10, 1, 0)

\* BigInt(Line), for the lines parseFile gives it: they start with 0x.
BigInt(Line) == IF Len(Line) = 2 THEN NaN ELSE Parsed(Line, 16, 3, 0)

\* Line.split(' '), for a line with at most one space.
Split(Line) ==
  IF \E K \in 1 .. Len(Line) : Line[K] = " "
  THEN LET K == CHOOSE K \in 1 .. Len(Line) : Line[K] = " "
       IN <<SubSeq(Line, 1, K - 1), SubSeq(Line, K + 1, Len(Line))>>
  ELSE <<Line>>

\* ------------------------------------------------------------------- state
VARIABLES
  mem,               \* the dump: table frame -> its NumberEntries entries
  DirectoryAddress_, \* PageTableIterator_t::DirectoryAddress_
  Pml4_, Pml4e_,     \* the iterator's four tables and four cursors
  Pdpt_, Pdpte_,
  Pd_, Pde_,
  Pt_, Pte_,
  Tape,              \* main: std::vector<Properties_t> Tape
  LastVa,            \* main: uint64_t LastVa
  status,            \* where main is: "loop", "done", "crashed"
  Out,               \* the lines printed so far
  Yielded,           \* history: the entries Next() has returned, in order
  Filler,            \* history: Filler[d] iff Tape[d] was appended by the gap loop
  Runs,              \* history: per returned entry, what the loop body appended
  props,             \* the PropertiesFromPtes evaluation of the folder specification
  Regions,           \* the builder's closed regions: VirtualBase, EndDistance
  Region,            \* the VirtualBase of the builder's current region
  Record,            \* the lines of the emitted record
  Width_, Height_,   \* viewer: Clairvoyance_t.Width_, Height_
  Order_,            \* viewer: Clairvoyance_t.Order_
  Regions_,          \* viewer: Clairvoyance_t.Regions_
  ImgData,           \* viewer: the pixels of the canvas, by (Y * Width_) + X
  curve,             \* the Hilbert calls of the curve specification
  Walked,            \* history: the leaves and tape of the run on the dump before
                     \* a LargePage bit of its PML4 was inverted
  render,            \* the renderer of the write specification: the tape's size,
                     \* the order laid out, the pixels written
  PixelClick_,       \* viewer: Clairvoyance_t.PixelClick_: X, Y, Color
  PixelMouseOver_,   \* viewer: Clairvoyance_t.PixelMouseOver_: X, Y, Color
  ClickLog_,         \* viewer: what ClickLog_.innerText shows: Va, Protection
  MouseLog_,         \* viewer: what MouseLog_.innerText shows: Va, Protection
  Hovered            \* history: the pixel of the last mouseMove that returned

\* The builder's regions.
regionVars == <<Regions, Region>>

\* The viewer's clicked and hovered pixels and its two text logs.
pointerVars == <<PixelClick_, PixelMouseOver_, ClickLog_, MouseLog_, Hovered>>

\* The emitted record and the viewer's fields.
viewerVars == <<Record, Width_, Height_, Order_, Regions_, ImgData, pointerVars>>

vars == <<mem, DirectoryAddress_, Pml4_, Pml4e_, Pdpt_, Pdpte_, Pd_, Pde_,
          Pt_, Pte_, Tape, LastVa, status, Out, Yielded, Filler, Runs, props,
          regionVars, viewerVars, curve, Walked, render>>

\* A pointer to an entry: the table it points into and the slot; Idx =
\* NumberEntries is Limit(Directory), one past the last entry.
EntryPtr(Dir, Idx) == [Dir |-> Dir, Idx |-> Idx]

\* nullptr, for entry pointers.
NullEntry == EntryPtr(nullptr, 0)

\* KernelDumpParser::GetPhysicalPage(PhysicalAddress): the page holding the
\* address, nullptr when the dump does not have it.
GetPhysicalPage(PhysicalAddress) ==
  IF (PhysicalAddress \div PageSize) \in DOMAIN mem
  THEN PhysicalAddress \div PageSize
  ELSE nullptr

\* *Entry, for an entry pointer into a table of the dump.
Deref(Entry) == mem[Entry.Dir][Entry.Idx]

\* PageTableIterator_t::Limit(Directory).
Limit(Directory) == EntryPtr(Directory, NumberEntries)

\* Entry < Limit(Directory), for a cursor of that directory.
BelowLimit(Entry, Directory) == Entry.Idx < Limit(Directory).Idx

\* PageTableIterator_t::IndexFromPxe(Directory, Entry): Entry - Directory.
IndexFromPxe(Directory, Entry) == Entry.Idx

\* Entry++.
Advance(Entry) == EntryPtr(Entry.Dir, Entry.Idx + 1)

\* The iterator's fields, as one record.
Iterator ==
  [Pml4_ |-> Pml4_, Pml4e_ |-> Pml4e_, Pdpt_ |-> Pdpt_, Pdpte_ |-> Pdpte_,
   Pd_ |-> Pd_, Pde_ |-> Pde_, Pt_ |-> Pt_, Pte_ |-> Pte_]

\* Mutant of MakeEntry: the fields below a super-page entry are not zeroed
\* but filled from the super-page entry itself.
MakeEntryWithoutZeroing(It) ==
  LET Pml4e == Deref(It.Pml4e_)
      Pdpte == Deref(It.Pdpte_)
      PdpteAddress == AddressFromPfn(Pml4e.PageFrameNumber)
                        + IndexFromPxe(It.Pdpt_, It.Pdpte_)
      Base == [Pml4e        |-> Pml4e,
               Pml4eAddress |-> DirectoryAddress_ + IndexFromPxe(It.Pml4_, It.Pml4e_),
               Pdpte        |-> Pdpte,
               PdpteAddress |-> PdpteAddress]
  IN IF Pdpte.LargePage
     THEN Base @@
          [Pde |-> Pdpte, PdeAddress |-> PdpteAddress,
           Pte |-> Pdpte, PteAddress |-> PdpteAddress,
           Pa |-> AddressFromPfn(Pdpte.PageFrameNumber),
           Va |-> U64(VirtualAddress_t(IndexFromPxe(It.Pml4_, It.Pml4e_),
                                       IndexFromPxe(It.Pdpt_, It.Pdpte_), 0, 0)),
           Type |-> "Huge"]
     ELSE LET Pde == Deref(It.Pde_)
              PdeAddress == AddressFromPfn(Pdpte.PageFrameNumber)
                              + IndexFromPxe(It.Pd_, It.Pde_)
          IN IF Pde.LargePage
             THEN Base @@
                  [Pde |-> Pde, PdeAddress |-> PdeAddress,
                   Pte |-> Pde, PteAddress |-> PdeAddress,
                   Pa |-> AddressFromPfn(Pde.PageFrameNumber),
                   Va |-> U64(VirtualAddress_t(IndexFromPxe(It.Pml4_, It.Pml4e_),
                                               IndexFromPxe(It.Pdpt_, It.Pdpte_),
                                               IndexFromPxe(It.Pd_, It.Pde_), 0)),
                   Type |-> "Large"]
             ELSE LET Pte == Deref(It.Pte_)
                  IN Base @@
                     [Pde |-> Pde, PdeAddress |-> PdeAddress,
                      Pte |-> Pte,
                      PteAddress |-> AddressFromPfn(Pde.PageFrameNumber)
                                       + IndexFromPxe(It.Pt_, It.Pte_),
                      Pa |-> AddressFromPfn(Pte.PageFrameNumber),
                      Va |-> U64(VirtualAddress_t(IndexFromPxe(It.Pml4_, It.Pml4e_),
                                                  IndexFromPxe(It.Pdpt_, It.Pdpte_),
                                                  IndexFromPxe(It.Pd_, It.Pde_),
                                                  IndexFromPxe(It.Pt_, It.Pte_))),
                      Type |-> "Normal"]

\* PageTableIterator_t::MakeEntry().
MakeEntry(It) ==
  LET Pml4e == Deref(It.Pml4e_)
      Pdpte == Deref(It.Pdpte_)
      Base == [Pml4e        |-> Pml4e,
               Pml4eAddress |-> DirectoryAddress_ + IndexFromPxe(It.Pml4_, It.Pml4e_),
               Pdpte        |-> Pdpte,
               PdpteAddress |-> AddressFromPfn(Pml4e.PageFrameNumber)
                                  + IndexFromPxe(It.Pdpt_, It.Pdpte_)]
  IN IF Pdpte.LargePage
     THEN Base @@
          [Pde |-> ZeroPte, PdeAddress |-> 0, Pte |-> ZeroPte, PteAddress |-> 0,
           Pa |-> AddressFromPfn(Pdpte.PageFrameNumber),
           Va |-> U64(VirtualAddress_t(IndexFromPxe(It.Pml4_, It.Pml4e_),
                                       IndexFromPxe(It.Pdpt_, It.Pdpte_), 0, 0)),
           Type |-> "Huge"]
     ELSE LET Pde == Deref(It.Pde_)
              PdeAddress == AddressFromPfn(Pdpte.PageFrameNumber)
                              + IndexFromPxe(It.Pd_, It.Pde_)
          IN IF Pde.LargePage
             THEN Base @@
                  [Pde |-> Pde, PdeAddress |-> PdeAddress,
                   Pte |-> ZeroPte, PteAddress |-> 0,
                   Pa |-> AddressFromPfn(Pde.PageFrameNumber),
                   Va |-> U64(VirtualAddress_t(IndexFromPxe(It.Pml4_, It.Pml4e_),
                                               IndexFromPxe(It.Pdpt_, It.Pdpte_),
                                               IndexFromPxe(It.Pd_, It.Pde_), 0)),
                   Type |-> "Large"]
             ELSE LET Pte == Deref(It.Pte_)
                  IN Base @@
                     [Pde |-> Pde, PdeAddress |-> PdeAddress,
                      Pte |-> Pte,
                      PteAddress |-> AddressFromPfn(Pde.PageFrameNumber)
                                       + IndexFromPxe(It.Pt_, It.Pte_),
                      Pa |-> AddressFromPfn(Pte.PageFrameNumber),
                      Va |-> U64(VirtualAddress_t(IndexFromPxe(It.Pml4_, It.Pml4e_),
                                                  IndexFromPxe(It.Pdpt_, It.Pdpte_),
                                                  IndexFromPxe(It.Pd_, It.Pde_),
                                                  IndexFromPxe(It.Pt_, It.Pte_))),
                      Type |-> "Normal"]

\* std::nullopt.
nullopt == [Type |-> "nullopt"]

\* What a call of Next() leaves: the iterator, the returned value, the lines
\* it printed.
Returned(It, Entry, Printed) == [It |-> It, Entry |-> Entry, Printed |-> Printed]

\* Mutant of NewCursor: the cursor restarts at the first slot on every descent.
NewCursorAlwaysFirst(OldTable, Table, Cursor) == EntryPtr(Table, 0)

\* if (OldTable != Table) { Cursor = Table; }
NewCursor(OldTable, Table, Cursor) ==
  IF OldTable # Table THEN EntryPtr(Table, 0) ELSE Cursor

\* Each level takes the iterator as a value: This is evaluated once, as It.
RECURSIVE FirstLevel(_, _), SecondLevel(_, _), ThirdLevel(_, _), FourthLevel(_, _)

\* Mutant of FourthLevel: the test of Pte_->u.Present is left out.
FourthLevelWithoutPresentTest(This, Printed) ==
  IF BelowLimit(This.Pte_, This.Pt_)
  THEN Returned([This EXCEPT !.Pte_ = Advance(@)], MakeEntry(This), Printed)
  ELSE ThirdLevel([This EXCEPT !.Pde_ = Advance(@)], Printed)

\* Next(): for (; Pte_ < Limit(Pt_); Pte_++), entered at the loop condition.
FourthLevel(This, Printed) ==
  The({
    IF BelowLimit(It.Pte_, It.Pt_)
    THEN IF ~Deref(It.Pte_).Present
         THEN FourthLevel([It EXCEPT !.Pte_ = Advance(@)], Printed)
         ELSE Returned([It EXCEPT !.Pte_ = Advance(@)], MakeEntry(It), Printed)
    ELSE ThirdLevel([It EXCEPT !.Pde_ = Advance(@)], Printed)
    : It \in {This}})

\* Next(): for (; Pde_ < Limit(Pd_); Pde_++), entered at the loop condition.
ThirdLevel(This, Printed) ==
  The({
    IF BelowLimit(It.Pde_, It.Pd_)
    THEN LET Pde == Deref(It.Pde_) IN
         IF ~Pde.Present
         THEN ThirdLevel([It EXCEPT !.Pde_ = Advance(@)], Printed)
         ELSE IF Pde.LargePage
         THEN LET It1 == [It EXCEPT !.Pt_ = nullptr, !.Pte_ = NullEntry]
              IN Returned([It1 EXCEPT !.Pde_ = Advance(@)], MakeEntry(It1), Printed)
         ELSE LET PtAddress == AddressFromPfn(Pde.PageFrameNumber)
                  OldPt == It.Pt_
                  Pt == GetPhysicalPage(PtAddress)
              IN IF Pt = nullptr
                 THEN ThirdLevel([It EXCEPT !.Pt_ = Pt, !.Pde_ = Advance(@)],
                                 Append(Printed, <<"PT", PtAddress>>))
                 ELSE FourthLevel([It EXCEPT !.Pt_ = Pt,
                                             !.Pte_ = NewCursor(OldPt, Pt, @)],
                                  Printed)
    ELSE SecondLevel([It EXCEPT !.Pdpte_ = Advance(@)], Printed)
    : It \in {This}})

\* Next(): for (; Pdpte_ < Limit(Pdpt_); Pdpte_++), entered at the loop condition.
SecondLevel(This, Printed) ==
  The({
    IF BelowLimit(It.Pdpte_, It.Pdpt_)
    THEN LET Pdpte == Deref(It.Pdpte_) IN
         IF ~Pdpte.Present
         THEN SecondLevel([It EXCEPT !.Pdpte_ = Advance(@)], Printed)
         ELSE IF Pdpte.LargePage
         THEN LET It1 == [It EXCEPT !.Pd_ = nullptr, !.Pde_ = NullEntry,
                                    !.Pt_ = nullptr, !.Pte_ = NullEntry]
              IN Returned([It1 EXCEPT !.Pdpte_ = Advance(@)], MakeEntry(It1), Printed)
         ELSE LET PdAddress == AddressFromPfn(Pdpte.PageFrameNumber)
                  OldPd == It.Pd_
                  Pd == GetPhysicalPage(PdAddress)
              IN IF Pd = nullptr
                 THEN SecondLevel([It EXCEPT !.Pd_ = Pd, !.Pdpte_ = Advance(@)],
                                  Append(Printed, <<"PD", PdAddress>>))
                 ELSE ThirdLevel([It EXCEPT !.Pd_ = Pd,
                                            !.Pde_ = NewCursor(OldPd, Pd, @)],
                                 Printed)
    ELSE FirstLevel([It EXCEPT !.Pml4e_ = Advance(@)], Printed)
    : It \in {This}})

\* Mutant of FirstLevel: falling out of the loop rewinds the PML4 cursor to
\* the first entry before std::nullopt is returned.
FirstLevelRewinding(This, Printed) ==
  IF BelowLimit(This.Pml4e_, This.Pml4_)
  THEN LET Pml4e == Deref(This.Pml4e_) IN
       IF ~Pml4e.Present
       THEN FirstLevel([This EXCEPT !.Pml4e_ = Advance(@)], Printed)
       ELSE LET PdptAddress == AddressFromPfn(Pml4e.PageFrameNumber)
                OldPdpt == This.Pdpt_
                Pdpt == GetPhysicalPage(PdptAddress)
            IN IF Pdpt = nullptr
               THEN FirstLevel([This EXCEPT !.Pdpt_ = Pdpt, !.Pml4e_ = Advance(@)],
                               Append(Printed, <<"PDPT", PdptAddress>>))
               ELSE SecondLevel([This EXCEPT !.Pdpt_ = Pdpt,
                                             !.Pdpte_ = NewCursor(OldPdpt, Pdpt, @)],
                                Printed)
  ELSE Returned([This EXCEPT !.Pml4e_ = EntryPtr(This.Pml4_, 0)], nullopt, Printed)

\* Mutant of FirstLevel: a PML4 entry with LargePage set is passed over.
FirstLevelReadingLargePage(This, Printed) ==
  IF BelowLimit(This.Pml4e_, This.Pml4_)
  THEN LET Pml4e == Deref(This.Pml4e_) IN
       IF ~Pml4e.Present \/ Pml4e.LargePage
       THEN FirstLevel([This EXCEPT !.Pml4e_ = Advance(@)], Printed)
       ELSE LET PdptAddress == AddressFromPfn(Pml4e.PageFrameNumber)
                OldPdpt == This.Pdpt_
                Pdpt == GetPhysicalPage(PdptAddress)
            IN IF Pdpt = nullptr
               THEN FirstLevel([This EXCEPT !.Pdpt_ = Pdpt, !.Pml4e_ = Advance(@)],
                               Append(Printed, <<"PDPT", PdptAddress>>))
               ELSE SecondLevel([This EXCEPT !.Pdpt_ = Pdpt,
                                           !.Pdpte_ = NewCursor(OldPdpt, Pdpt, @)],
                                Printed)
  ELSE Returned(This, nullopt, Printed)

\* Next(): for (; Pml4e_ < Limit(Pml4_); Pml4e_++), entered at the loop
\* condition; falling out of it returns std::nullopt.
FirstLevel(This, Printed) ==
  The({
    IF BelowLimit(It.Pml4e_, It.Pml4_)
    THEN LET Pml4e == Deref(It.Pml4e_) IN
         IF ~Pml4e.Present
         THEN FirstLevel([It EXCEPT !.Pml4e_ = Advance(@)], Printed)
         ELSE LET PdptAddress == AddressFromPfn(Pml4e.PageFrameNumber)
                  OldPdpt == It.Pdpt_
                  Pdpt == GetPhysicalPage(PdptAddress)
              IN IF Pdpt = nullptr
                 THEN FirstLevel([It EXCEPT !.Pdpt_ = Pdpt, !.Pml4e_ = Advance(@)],
                                 Append(Printed, <<"PDPT", PdptAddress>>))
                 ELSE SecondLevel([It EXCEPT !.Pdpt_ = Pdpt,
                                             !.Pdpte_ = NewCursor(OldPdpt, Pdpt, @)],
                                  Printed)
    ELSE Returned(It, nullopt, Printed)
    : It \in {This}})

\* PageTableIterator_t::Next(), for an iterator whose root table is in the dump.
NextEntry(It) == FirstLevel(It, <<>>)

\* ------------------------------------------------- the nested-loop walk
\* DumpColor_t::AddPage(Va, Pml4e, Pdpte, Pde, Pte): the call, as a record.
AddPage(Va, Pml4e, Pdpte, Pde, Pte) ==
  [Va |-> U64(Va), Pml4e |-> Pml4e, Pdpte |-> Pdpte, Pde |-> Pde, Pte |-> Pte]

RECURSIVE PtLoop(_, _, _, _, _, _, _, _), PdLoop(_, _, _, _, _, _),
          PdptLoop(_, _, _, _), Pml4Loop(_, _)

\* ComputePixels: for (PtIdx = 0; PtIdx < NumberEntries; PtIdx++), from PtIdx on.
PtLoop(Pml4Idx, Pml4e, PdptIdx, Pdpte, PdIdx, Pde, Pt, PtIdx) ==
  IF PtIdx < NumberEntries
  THEN LET Pte == mem[Pt][PtIdx]
           Rest == PtLoop(Pml4Idx, Pml4e, PdptIdx, Pdpte, PdIdx, Pde, Pt, PtIdx + 1)
       IN IF ~Pte.Present
          THEN Rest
          ELSE <<AddPage(VirtualAddress_t(Pml4Idx, PdptIdx, PdIdx, PtIdx),
                         Pml4e, Pdpte, Pde, Pte)>> \o Rest
  ELSE <<>>

\* ComputePixels: for (PdIdx = 0; PdIdx < NumberEntries; PdIdx++), from PdIdx on.
PdLoop(Pml4Idx, Pml4e, PdptIdx, Pdpte, Pd, PdIdx) ==
  IF PdIdx < NumberEntries
  THEN LET Pde == mem[Pd][PdIdx]
           Rest == PdLoop(Pml4Idx, Pml4e, PdptIdx, Pdpte, Pd, PdIdx + 1)
           Pt == GetPhysicalPage(AddressFromPfn(Pde.PageFrameNumber))
       IN IF ~Pde.Present
          THEN Rest
          ELSE IF Pde.LargePage
          THEN <<AddPage(VirtualAddress_t(Pml4Idx, PdptIdx, PdIdx, 0),
                         Pml4e, Pdpte, Pde, ZeroPte)>> \o Rest
          ELSE IF Pt = nullptr
          THEN Rest
          ELSE PtLoop(Pml4Idx, Pml4e, PdptIdx, Pdpte, PdIdx, Pde, Pt, 0) \o Rest
  ELSE <<>>

\* ComputePixels: for (PdptIdx = 0; PdptIdx < NumberEntries; PdptIdx++), from
\* PdptIdx on.
PdptLoop(Pml4Idx, Pml4e, Pdpt, PdptIdx) ==
  IF PdptIdx < NumberEntries
  THEN LET Pdpte == mem[Pdpt][PdptIdx]
           Rest == PdptLoop(Pml4Idx, Pml4e, Pdpt, PdptIdx + 1)
           Pd == GetPhysicalPage(AddressFromPfn(Pdpte.PageFrameNumber))
       IN IF ~Pdpte.Present
          THEN Rest
          ELSE IF Pdpte.LargePage
          THEN <<AddPage(VirtualAddress_t(Pml4Idx, PdptIdx, 0, 0),
                         Pml4e, Pdpte, ZeroPte, ZeroPte)>> \o Rest
          ELSE IF Pd = nullptr
          THEN Rest
          ELSE PdLoop(Pml4Idx, Pml4e, PdptIdx, Pdpte, Pd, 0) \o Rest
  ELSE <<>>

\* ComputePixels: for (Pml4Idx = 0; Pml4Idx < NumberEntries; Pml4Idx++), from
\* Pml4Idx on.
Pml4Loop(Pml4, Pml4Idx) ==
  IF Pml4Idx < NumberEntries
  THEN LET Pml4e == mem[Pml4][Pml4Idx]
           Rest == Pml4Loop(Pml4, Pml4Idx + 1)
           Pdpt == GetPhysicalPage(AddressFromPfn(Pml4e.PageFrameNumber))
       IN IF ~Pml4e.Present
          THEN Rest
          ELSE IF Pdpt = nullptr
          THEN Rest
          ELSE PdptLoop(Pml4Idx, Pml4e, Pdpt, 0) \o Rest
  ELSE <<>>

\* DumpColor_t::ComputePixels: the AddPage calls of the four nested loops over
\* the tables under Cr3, in order; none when the root table is not in the dump.
ComputePixels(Cr3) ==
  LET Pml4 == GetPhysicalPage(Cr3)
  IN IF Pml4 = nullptr THEN <<>> ELSE Pml4Loop(Pml4, 0)

\* --------------------------------------------------------- the tape builder
RECURSIVE GapLoop(_, _, _, _)

\* Mutant of GapLoop: the loop breaks once N is over MaxGapEntries.
GapLoopBreakingLate(CurLastVa, Va, N, Added) ==
  IF (CurLastVa + PageSize) % U64Modulus < Va
  THEN LET Added1 == Append(Added, None)
           N1 == N + 1
       IN IF N1 > MaxGapEntries
          THEN [Added |-> Added1, Printed |-> <<<<"Huge gap", LastVa, Va>>>>]
          ELSE GapLoop((CurLastVa + PageSize) % U64Modulus, Va, N1, Added1)
  ELSE [Added |-> Added, Printed |-> <<>>]

\* main: for (CurLastVa = LastVa; (CurLastVa + Page::Size) < Entry->Va;
\* CurLastVa += Page::Size), from CurLastVa on with N entries added so far:
\* the None entries added and the line printed.
GapLoop(CurLastVa, Va, N, Added) ==
  IF (CurLastVa + PageSize) % U64Modulus < Va
  THEN LET Added1 == Append(Added, None)
           N1 == N + 1
       IN IF N1 >= MaxGapEntries
          THEN [Added |-> Added1, Printed |-> <<<<"Huge gap", LastVa, Va>>>>]
          ELSE GapLoop((CurLastVa + PageSize) % U64Modulus, Va, N1, Added1)
  ELSE [Added |-> Added, Printed |-> <<>>]

\* Mutant of GapFill: the gap loop starts one page after LastVa.
GapFillFromNextPage(Entry) ==
  IF (LastVa + PageSize) % U64Modulus # Entry.Va
  THEN GapLoop((LastVa + PageSize) % U64Modulus, Entry.Va, 0, <<>>)
  ELSE [Added |-> <<>>, Printed |-> <<>>]

\* main: if ((LastVa + Page::Size) != Entry->Va) { the gap loop }.
GapFill(Entry) ==
  IF (LastVa + PageSize) % U64Modulus # Entry.Va
  THEN GapLoop(LastVa, Entry.Va, 0, <<>>)
  ELSE [Added |-> <<>>, Printed |-> <<>>]

RECURSIVE ParseGapLoop(_, _, _, _)

\* Visualizer_t::Parse: the same loop with the test written
\* if (N++ >= MaxGapEntries): N is compared before it is incremented.
ParseGapLoop(CurLastVa, Va, N, Added) ==
  IF (CurLastVa + PageSize) % U64Modulus < Va
  THEN LET Added1 == Append(Added, None)
       IN IF N >= MaxGapEntries
          THEN [Added |-> Added1, Printed |-> <<<<"Huge gap", LastVa, Va>>>>]
          ELSE ParseGapLoop((CurLastVa + PageSize) % U64Modulus, Va, N + 1, Added1)
  ELSE [Added |-> Added, Printed |-> <<>>]

\* Visualizer_t::Parse: if ((LastVa + page::Size) != Entry->Va) { the gap loop }.
ParseGapFill(Entry) ==
  IF (LastVa + PageSize) % U64Modulus # Entry.Va
  THEN ParseGapLoop(LastVa, Entry.Va, 0, <<>>)
  ELSE [Added |-> <<>>, Printed |-> <<>>]

RECURSIVE PixelLoop(_, _, _, _, _)

\* main: for (Idx = 0; Idx < NumberPixels; Idx++), from Idx on: the entries
\* added and the last value assigned to LastVa.
PixelLoop(Entry, Properties, NumberPixels, Idx, Acc) ==
  IF Idx < NumberPixels
  THEN LET CurrentVa == AddressFromPfn2(Entry.Va, Idx)
       IN PixelLoop(Entry, Properties, NumberPixels, Idx + 1,
                    [Added |-> Append(Acc.Added, Properties), LastVa |-> CurrentVa])
  ELSE Acc

\* main: the pixels of one entry.
Pixels(Entry) ==
  PixelLoop(Entry,
            PropertiesFromPtes(Entry.Pml4e, Entry.Pdpte, Entry.Pde, Entry.Pte),
            GetNumberPixels(Entry.Type), 0,
            [Added |-> <<>>, LastVa |-> LastVa])

\* ------------------------------------------------------------ the program
\* The (Write, UserAccessible, NoExecute) bits the present entries of a dump carry.
PermSet == {<<TRUE, TRUE, FALSE>>, <<FALSE, FALSE, TRUE>>}

\* The entries a table of the dump can hold: the absent entry, or a present
\* one with either LargePage bit and any frame.
Entries(Perm) ==
  {ZeroPte} \cup
  {PteHardware_t(TRUE, Perm[1], Perm[2], L, Pfn, Perm[3]) :
     L \in BOOLEAN, Pfn \in Pfns}

\* The dumps: every table frame holds NumberEntries entries.
Dumps ==
  UNION {[TablePfns -> [0 .. (NumberEntries - 1) -> Entries(Perm)]] :
           Perm \in PermSet}

\* The directory bases: the first table frame, or a frame the dump lacks.
DirectoryBases == {AddressFromPfn(0), AddressFromPfn(AbsentPfn)}

\* The current region before the first leaf: none.
NoRegion == -1

\* undefined (JavaScript), which no number of the viewer equals.
undefined == -2

\* Clairvoyance_t's constructor: no pixel clicked, none under the mouse,
\* nothing written to the logs.
NoPixelPointed ==
  /\ PixelClick_ = [X |-> undefined, Y |-> undefined, Color |-> undefined]
  /\ PixelMouseOver_ = [X |-> undefined, Y |-> undefined, Color |-> undefined]
  /\ ClickLog_ = <<>>
  /\ MouseLog_ = <<>>
  /\ Hovered = <<>>

\* The builder before the first leaf, no record, and the viewer after
\* Clairvoyance_t's constructor.
NothingEmitted ==
  /\ Regions = <<>>
  /\ Region = NoRegion
  /\ Record = <<>>
  /\ Width_ = undefined /\ Height_ = undefined /\ Order_ = undefined
  /\ Regions_ = <<>>
  /\ ImgData = <<>>
  /\ NoPixelPointed
  /\ curve = <<>>
  /\ Walked = <<>>
  /\ render = <<>>

\* The state after main constructs the iterator (the constructor calls Reset())
\* and the empty tape.
Init ==
  /\ mem \in Dumps
  /\ DirectoryAddress_ \in DirectoryBases
  /\ Pml4_ = GetPhysicalPage(DirectoryAddress_)
  /\ Pml4e_ = (IF Pml4_ = nullptr THEN NullEntry ELSE EntryPtr(Pml4_, 0))
  /\ Pdpt_ = nullptr /\ Pdpte_ = NullEntry
  /\ Pd_ = nullptr /\ Pde_ = NullEntry
  /\ Pt_ = nullptr /\ Pte_ = NullEntry
  /\ Tape = <<>>
  /\ LastVa = 0
  /\ status = "loop"
  /\ Out = <<>>
  /\ Yielded = <<>>
  /\ Filler = <<>>
  /\ Runs = <<>>
  /\ props = <<>>
  /\ NothingEmitted

\* The slots of the four tables at which Next() found the entry it returned:
\* the cursors on return, the cursor of the leaf's level being one past it.
PathOf(It, Entry) ==
  CASE Entry.Type = "Huge" -> <<It.Pml4e_.Idx, It.Pdpte_.Idx - 1, 0, 0>>
    [] Entry.Type = "Large" -> <<It.Pml4e_.Idx, It.Pdpte_.Idx, It.Pde_.Idx - 1, 0>>
    [] Entry.Type = "Normal" ->
         <<It.Pml4e_.Idx, It.Pdpte_.Idx, It.Pde_.Idx, It.Pte_.Idx - 1>>

\* The iterator's fields after a call of Next().
IteratorBecomes(It) ==
  /\ Pml4_' = It.Pml4_ /\ Pml4e_' = It.Pml4e_
  /\ Pdpt_' = It.Pdpt_ /\ Pdpte_' = It.Pdpte_
  /\ Pd_' = It.Pd_ /\ Pde_' = It.Pde_
  /\ Pt_' = It.Pt_ /\ Pte_' = It.Pte_

\* The gap loop stopped at the cap before the gap was closed: pages are
\* still absent between the last None entry and the entry.
GapLeftOpen(Entry, Gap) ==
  LastVa + ((Len(Gap.Added) + 1) * PageSize) < Entry.Va

\* The builder's regions on a leaf: the first leaf starts the first region
\* at its VirtualBase; a gap the cap left open closes the current region at
\* the current tape length and starts a new one at the leaf's VirtualBase.
TrackRegion(Entry, Gap) ==
  /\ Region' = IF Region = NoRegion \/ GapLeftOpen(Entry, Gap)
               THEN Entry.Va
               ELSE Region
  /\ Regions' = IF Region # NoRegion /\ GapLeftOpen(Entry, Gap)
                THEN Append(Regions, [VirtualBase |-> Region,
                                      EndDistance |-> Len(Tape) + Len(Gap.Added)])
                ELSE Regions

\* The builder's regions at the end of the walk: the final region is closed
\* at the tape length.
CloseRegion ==
  /\ Regions' = IF Region = NoRegion
                THEN Regions
                ELSE Append(Regions, [VirtualBase |-> Region,
                                      EndDistance |-> Len(Tape)])
  /\ Region' = Region

\* The body of a turn of while (1) for the entry Next() returned: the None
\* entries of the gap are added to the tape, then the entry's pixels, the
\* last of which sets LastVa.
Turn(R, Gap, Pix) ==
  /\ IteratorBecomes(R.It)
  /\ Tape' = Tape \o Gap.Added \o Pix.Added
  /\ LastVa' = Pix.LastVa
  /\ Out' = Out \o R.Printed \o Gap.Printed
  /\ Yielded' = Append(Yielded, R.Entry)
  /\ Filler' = Filler \o [d \in 1 .. Len(Gap.Added) |-> TRUE]
                      \o [d \in 1 .. Len(Pix.Added) |-> FALSE]
  /\ Runs' = Append(Runs, [Before |-> Len(Tape), After |-> Len(Tape'),
                           LastVa |-> LastVa', Path |-> PathOf(R.It, R.Entry)])
  /\ TrackRegion(R.Entry, Gap)

\* main: one turn of while (1) in which It.Next() returns an entry: the gap
\* before the entry is filled, then the entry's pixels are added.
LoopEntry ==
  /\ status = "loop"
  /\ Pml4_ # nullptr
  /\ \E R \in {NextEntry(Iterator)} :
       /\ R.Entry # nullopt
       /\ \E Gap \in {GapFill(R.Entry)} :
            \E Pix \in {Pixels(R.Entry)} : Turn(R, Gap, Pix)
  /\ UNCHANGED <<mem, DirectoryAddress_, status, props, viewerVars, curve, Walked, render>>

\* main: the turn of while (1) in which It.Next() returns std::nullopt: break.
LoopEnd ==
  /\ status = "loop"
  /\ Pml4_ # nullptr
  /\ \E R \in {NextEntry(Iterator)} :
       /\ R.Entry = nullopt
       /\ IteratorBecomes(R.It)
       /\ Out' = Out \o R.Printed
  /\ CloseRegion
  /\ status' = "done"
  /\ UNCHANGED <<mem, DirectoryAddress_, Tape, LastVa, Yielded, Filler, Runs, props,
                 viewerVars, curve, Walked, render>>

\* What a build can do with Next() on an iterator whose Pml4_ is nullptr
\* (Reset() does not test it): Limit(nullptr) is out-of-bounds pointer
\* arithmetic and Pml4e_->u.Present reads through nullptr.  Either the read
\* traps, or the loop condition is taken as false and Next() returns
\* std::nullopt.
NullRootOutcomes == {"crashed", "done"}

\* main: the first turn of while (1) when the root table is not in the dump.
LoopNullRoot ==
  /\ status = "loop"
  /\ Pml4_ = nullptr
  /\ status' \in NullRootOutcomes
  /\ UNCHANGED <<mem, DirectoryAddress_, Pml4_, Pml4e_, Pdpt_, Pdpte_, Pd_, Pde_,
                 Pt_, Pte_, Tape, LastVa, Out, Yielded, Filler, Runs, props,
                 regionVars, viewerVars, curve, Walked, render>>

\* ---------------------------------------------------------- the record
RECURSIVE FloorLog2(_)

\* The integer part of the binary logarithm of a positive integer.
FloorLog2(Size) == IF Size < 2 THEN 0 ELSE 1 + FloorLog2(Size \div 2)

\* The significant bits of a float (IEEE 754 binary32).
FloatDigits == 24

\* float(Size): the nearest value with FloatDigits significant bits, the
\* one with an even last bit when two are equally near.
Float(Size) ==
  IF FloorLog2(Size) + 1 <= FloatDigits
  THEN Size
  ELSE LET Ulp == 2 ^ (FloorLog2(Size) + 1 - FloatDigits)
           Low == (Size \div Ulp) * Ulp
       IN IF 2 * (Size - Low) < Ulp THEN Low
          ELSE IF 2 * (Size - Low) > Ulp THEN Low + Ulp
          ELSE IF (Size \div Ulp) % 2 = 0 THEN Low
          ELSE Low + Ulp

\* const uint64_t Log2 = std::log2(float(Size)); const uint64_t Order =
\* (Log2 / 2), for a tape of Size entries: the logarithm of the float,
\* truncated.
OrderOf(Size) == FloorLog2(Float(Size)) \div 2

\* The distance at which the I-th region starts: the EndDistance of the
\* region before it, 0 for the first.
RegionStart(I) == IF I = 1 THEN 0 ELSE Regions[I - 1].EndDistance

RECURSIVE RegionHeaders(_, _)

\* The header lines, `0x` and the VirtualBase in hexadecimal, of the regions
\* from the I-th on that start at Distance.
RegionHeaders(Distance, I) ==
  IF I > Len(Regions)
  THEN <<>>
  ELSE (IF RegionStart(I) = Distance
        THEN <<<<"0", "x">> \o Formatted(Regions[I].VirtualBase, 16)>>
        ELSE <<>>) \o RegionHeaders(Distance, I + 1)

RECURSIVE RecordLines(_)

\* The lines of the record from the tape entry at Distance on: the headers of
\* the regions that start there, then the protection value in hexadecimal
\* without 0x.
RecordLines(Distance) ==
  IF Distance >= Len(Tape)
  THEN <<>>
  ELSE RegionHeaders(Distance, 1)
         \o <<Formatted(Tape[Distance + 1], 16)>>
         \o RecordLines(Distance + 1)

\* The record: the line `<width> <height>` in decimal, width = height =
\* 2^order, then the region headers and the protection values.
Emit ==
  /\ status = "done"
  /\ Tape # <<>>
  /\ Record' = <<Formatted(Width(OrderOf(Len(Tape))), 10) \o <<" ">>
                   \o Formatted(Height(OrderOf(Len(Tape))), 10)>>
                 \o RecordLines(0)
  /\ status' = "emitted"
  /\ UNCHANGED <<mem, DirectoryAddress_, Pml4_, Pml4e_, Pdpt_, Pdpte_, Pd_, Pde_,
                 Pt_, Pte_, Tape, LastVa, Out, Yielded, Filler, Runs, props,
                 regionVars, Width_, Height_, Order_, Regions_, ImgData, pointerVars,
                 curve, Walked, render>>

\* ---------------------------------------------------------- the viewer
RECURSIVE xy2dLoop(_, _, _, _)

\* Clairvoyance_t.xy2d: for (let Idx = this.Order_ - 1; Idx >= 0; Idx--),
\* from Idx on; >> and ^ work on signed 32-bit operands.
xy2dLoop(X, Y, S, Idx) ==
  IF Idx >= 0
  THEN LET Xi == And32(Sar32(X, Idx), 1)
           Yi == And32(Sar32(Y, Idx), 1)
           X1 == IF Yi = 0 THEN Xor32(Y, -Xi) ELSE X
           Y1 == IF Yi = 0 THEN Xor32(X, -Xi) ELSE Y
           After == {<<X1, Y1, 4 * S + 2 * Xi + Xor32(Xi, Yi)>>}
       IN The({xy2dLoop(Now[1], Now[2], Now[3], Idx - 1) : Now \in After})
  ELSE S

\* Clairvoyance_t.xy2d(X_, Y_), with this.Order_ = Order.
xy2d(X_, Y_, Order) == xy2dLoop(X_, Y_, 0, Order - 1)

\* Clairvoyance_t.d2xy: Cs ^= (Cs >> K).
d2xyPrefixXor(Cs_, K) == The({Xor32(Cs, Sar32(Cs, K)) : Cs \in {Cs_}})

\* Clairvoyance_t.d2xy: T = (S ^ (S >> K)) & Mask; S ^= T ^ (T << K).
d2xyUnshuffle(S_, K, Mask) ==
  The({The({Xor32(S, Xor32(T, Shl32(T, K))) :
              T \in {And32(Xor32(S, Sar32(S, K)), Mask)}}) :
         S \in {S_}})

\* Clairvoyance_t.d2xy, from Sr to S &= (1 << (2 * this.Order_)) - 1.
d2xyUntangle(S_, Order) ==
  The({The({The({The({And32(Xor32(S, Xor32(Sr, Xor32(T, Shl32(T, 1)))),
                            Add32(Shl32(1, (2 * Order) % 32), -1)) :
                        T \in {Xor32(And32(S, And32(Cs, 1431655765)),
                                     And32(Sar32(Cs, 1), 1431655765))}}) :
                   Cs \in {d2xyPrefixXor(d2xyPrefixXor(d2xyPrefixXor(d2xyPrefixXor(
                              Xor32(Add32(And32(S, 1431655765), Sr), 1431655765),
                              2), 4), 8), 16)}}) :
              Sr \in {And32(Sar32(S, 1), 1431655765)}}) :
         S \in {S_}})

\* Mutant of d2xy: the halves of S are returned as Y and X.
d2xyTransposed(Dist, Order) ==
  The({[X |-> And32(S, 65535), Y |-> Sar32(S, 16)] :
         S \in {d2xyUnshuffle(d2xyUnshuffle(d2xyUnshuffle(d2xyUnshuffle(
                  d2xyUntangle(Or32(Dist, Shl32(1431655765, (2 * Order) % 32)), Order),
                  1, 572662306), 2, 202116108), 4, 15728880), 8, 65280)}})

\* Clairvoyance_t.d2xy(Dist), with this.Order_ = Order: >> shifts the sign
\* bit in, << takes its count modulo 32.
d2xy(Dist, Order) ==
  The({[X |-> Sar32(S, 16), Y |-> And32(S, 65535)] :
         S \in {d2xyUnshuffle(d2xyUnshuffle(d2xyUnshuffle(d2xyUnshuffle(
                  d2xyUntangle(Or32(Dist, Shl32(1431655765, (2 * Order) % 32)), Order),
                  1, 572662306), 2, 202116108), 4, 15728880), 8, 65280)}})

\* Clairvoyance_t.Palette_: the colour {R, G, B} of each protection value.
Palette_ ==
  [P \in 0 .. 8 |->
     CASE P = 0 -> <<0, 0, 0>>
       [] P = 1 -> <<169, 255, 82>>
       [] P = 2 -> <<255, 255, 153>>
       [] P = 3 -> <<224, 176, 255>>
       [] P = 4 -> <<255, 127, 127>>
       [] P = 5 -> <<0, 255, 0>>
       [] P = 6 -> <<255, 255, 0>>
       [] P = 7 -> <<160, 32, 240>>
       [] P = 8 -> <<254, 0, 0>>]

\* Math.log2(Value), for a value that is a power of two.
MathLog2(Value) == FloorLog2(Value)

\* The orders of the canvases a tape of the model can need.
CanvasOrders == 0 .. OrderOf(2 * (U64Modulus \div PageSize))

\* this.d2xy(Dist) for every distance of every canvas, computed once.
d2xyAt ==
  [Order \in CanvasOrders |->
     [Dist \in 0 .. ((4 ^ Order) - 1) |-> d2xy(Dist, Order)]]

\* this.xy2d(X, Y) for every pixel of every canvas, computed once.
xy2dAt ==
  [Order \in CanvasOrders |->
     [Coord \in (0 .. ((2 ^ Order) - 1)) \X (0 .. ((2 ^ Order) - 1)) |->
        xy2d(Coord[1], Coord[2], Order)]]

\* Mutant of Pushed: the region is given the distance after the current one.
PushedAtNextDistance(Regs, Line, Distance) ==
  Append(Regs, [Va |-> BigInt(Line), Start |-> Distance + 1])

\* this.Regions_.push({Va: BigInt(Line), Start: BigInt(Distance)}).
Pushed(Regs, Line, Distance) ==
  Append(Regs, [Va |-> BigInt(Line), Start |-> Distance])

RECURSIVE ParseLines(_, _, _, _, _, _, _, _)

\* parseFile: for (const Line of Lines.slice(1)), from the K-th of these
\* lines on, with the regions pushed and the pixels coloured so far.  For a
\* line whose number is not in the palette, this.Palette_.get() is undefined
\* and Color.R throws.
ParseLines(Lines, K, Distance, Regs, Img, CanvasWidth, CanvasHeight, Order) ==
  IF K > Len(Lines)
  THEN [Regions_ |-> Regs, ImgData |-> Img, Threw |-> FALSE]
  ELSE IF StartsWith0x(Lines[K])
  THEN ParseLines(Lines, K + 1, Distance, Pushed(Regs, Lines[K], Distance),
                  Img, CanvasWidth, CanvasHeight, Order)
  ELSE LET Coord == d2xyAt[Order][Distance]
           Key == Number(Lines[K])
           Pixel == (Coord.Y * CanvasWidth) + Coord.X
       IN IF Key \notin DOMAIN Palette_
          THEN [Regions_ |-> Regs, ImgData |-> Img, Threw |-> TRUE]
          ELSE LET Img1 == IF Pixel \in DOMAIN Img
                           THEN [Img EXCEPT ![Pixel] = Palette_[Key] \o <<255>>]
                           ELSE Img
               IN IF Distance + 1 = CanvasWidth * CanvasHeight
                  THEN [Regions_ |-> Regs, ImgData |-> Img1, Threw |-> FALSE]
                  ELSE ParseLines(Lines, K + 1, Distance + 1, Regs, Img1,
                                  CanvasWidth, CanvasHeight, Order)

\* Content.split('\n') of the record, each line of which ends with \n: the
\* lines and an empty last one.
SplitLines == Append(Record, <<>>)

\* Clairvoyance_t.parseFile(Content): the header gives the canvas, whose
\* pixels start transparent; the lines give the regions and the colours.
parseFile ==
  /\ status = "emitted"
  /\ LET Lines == SplitLines
         Header == Split(Lines[1])
         CanvasWidth == Number(Header[1])
         CanvasHeight == IF Len(Header) >= 2 THEN Number(Header[2]) ELSE undefined
         Order == MathLog2(CanvasWidth)
         Blank == [Pixel \in 0 .. ((CanvasWidth * CanvasHeight) - 1) |-> <<0, 0, 0, 0>>]
         Parse == ParseLines(SubSeq(Lines, 2, Len(Lines)), 1, 0, Regions_,
                             Blank, CanvasWidth, CanvasHeight, Order)
     IN /\ Width_' = CanvasWidth
        /\ Height_' = CanvasHeight
        /\ Order_' = Order
        /\ Regions_' = Parse.Regions_
        /\ ImgData' = IF Parse.Threw THEN Blank ELSE Parse.ImgData
        /\ status' = IF Parse.Threw THEN "threw" ELSE "viewed"
  /\ UNCHANGED <<mem, DirectoryAddress_, Pml4_, Pml4e_, Pdpt_, Pdpte_, Pd_, Pde_,
                 Pt_, Pte_, Tape, LastVa, Out, Yielded, Filler, Runs, props,
                 regionVars, Record, pointerVars, curve, Walked, render>>

RECURSIVE AddressLoop(_, _)

\* addressFromCoord: for (const [Idx, Region] of this.Regions_.entries()),
\* from the Idx-th region on; undefined when the loop falls through.
AddressLoop(Distance, Idx) ==
  IF Idx > Len(Regions_)
  THEN undefined
  ELSE IF Idx = Len(Regions_) \/ Distance < Regions_[Idx + 1].Start
       THEN Regions_[Idx].Va + ((Distance - Regions_[Idx].Start) * PageSize)
       ELSE AddressLoop(Distance, Idx + 1)

\* Clairvoyance_t.addressFromCoord(X, Y).
addressFromCoord(X, Y) == AddressLoop(xy2dAt[Order_][<<X, Y>>], 1)

Next == LoopEntry \/ LoopEnd \/ LoopNullRoot \/ Emit \/ parseFile

Spec == Init /\ [][Next]_vars

\* ------------------------------------------------ Visualizer_t::Parse
\* The state after Visualizer_t::Parse constructs the walker and the empty
\* tape: that of Init, in Parse.
InitVisualizer ==
  /\ mem \in Dumps
  /\ DirectoryAddress_ \in DirectoryBases
  /\ Pml4_ = GetPhysicalPage(DirectoryAddress_)
  /\ Pml4e_ = (IF Pml4_ = nullptr THEN NullEntry ELSE EntryPtr(Pml4_, 0))
  /\ Pdpt_ = nullptr /\ Pdpte_ = NullEntry
  /\ Pd_ = nullptr /\ Pde_ = NullEntry
  /\ Pt_ = nullptr /\ Pte_ = NullEntry
  /\ Tape = <<>>
  /\ LastVa = 0
  /\ status = "parse"
  /\ Out = <<>>
  /\ Yielded = <<>>
  /\ Filler = <<>>
  /\ Runs = <<>>
  /\ props = <<>>
  /\ NothingEmitted

\* Visualizer_t::Parse: one turn of while (1) in which Walker.Next() returns
\* an entry.
ParseEntry ==
  /\ status = "parse"
  /\ Pml4_ # nullptr
  /\ LET R == NextEntry(Iterator)
     IN /\ R.Entry # nullopt
        /\ Turn(R, ParseGapFill(R.Entry), Pixels(R.Entry))
  /\ UNCHANGED <<mem, DirectoryAddress_, status, props, viewerVars, curve, Walked, render>>

\* Visualizer_t::Parse: the turn in which Walker.Next() returns std::nullopt:
\* break, and Parse returns true.
ParseEnd ==
  /\ status = "parse"
  /\ Pml4_ # nullptr
  /\ LET R == NextEntry(Iterator)
     IN /\ R.Entry = nullopt
        /\ IteratorBecomes(R.It)
        /\ Out' = Out \o R.Printed
  /\ CloseRegion
  /\ status' = "parsed"
  /\ UNCHANGED <<mem, DirectoryAddress_, Tape, LastVa, Yielded, Filler, Runs, props,
                 viewerVars, curve, Walked, render>>

\* Visualizer_t::Parse: the first turn when the root table is not in the
\* dump; the walker's Next() reads through nullptr as the iterator's does.
ParseNullRoot ==
  /\ status = "parse"
  /\ Pml4_ = nullptr
  /\ status' \in {"crashed", "parsed"}
  /\ UNCHANGED <<mem, DirectoryAddress_, Pml4_, Pml4e_, Pdpt_, Pdpte_, Pd_, Pde_,
                 Pt_, Pte_, Tape, LastVa, Out, Yielded, Filler, Runs, props,
                 regionVars, viewerVars, curve, Walked, render>>

NextVisualizer == ParseEntry \/ ParseEnd \/ ParseNullRoot

SpecVisualizer == InitVisualizer /\ [][NextVisualizer]_vars

\* ------------------------------------------- the protection folder alone
\* The permission bits of one entry.
Bits == [Write : BOOLEAN, UserAccessible : BOOLEAN, NoExecute : BOOLEAN]

\* A present entry with the given bits.
PresentPte(B, LargePage) ==
  PteHardware_t(TRUE, B.Write, B.UserAccessible, LargePage, 0, B.NoExecute)

\* The entries MakeEntry() puts in an Entry_t, for every choice of the
\* permission bits of the levels: a Huge entry has Pdpte.LargePage and zero
\* Pde and Pte, a Large one has Pde.LargePage and a zero Pte.
FolderInputs ==
  {[Pml4e |-> PresentPte(B1, L1), Pdpte |-> PresentPte(B2, TRUE),
    Pde |-> ZeroPte, Pte |-> ZeroPte, Type |-> "Huge"] :
      B1 \in Bits, B2 \in Bits, L1 \in BOOLEAN}
  \cup
  {[Pml4e |-> PresentPte(B1, L1), Pdpte |-> PresentPte(B2, FALSE),
    Pde |-> PresentPte(B3, TRUE), Pte |-> ZeroPte, Type |-> "Large"] :
      B1 \in Bits, B2 \in Bits, B3 \in Bits, L1 \in BOOLEAN}
  \cup
  {[Pml4e |-> PresentPte(B1, L1), Pdpte |-> PresentPte(B2, FALSE),
    Pde |-> PresentPte(B3, FALSE), Pte |-> PresentPte(B4, L4), Type |-> "Normal"] :
      B1 \in Bits, B2 \in Bits, B3 \in Bits, B4 \in Bits,
      L1 \in BOOLEAN, L4 \in BOOLEAN}

\* No dump, no iterator position, nothing added to the tape or emitted.
InitFolderless ==
  /\ mem = [P \in TablePfns |-> [I \in 0 .. (NumberEntries - 1) |-> ZeroPte]]
  /\ DirectoryAddress_ = AddressFromPfn(0)
  /\ Pml4_ = nullptr /\ Pml4e_ = NullEntry
  /\ Pdpt_ = nullptr /\ Pdpte_ = NullEntry
  /\ Pd_ = nullptr /\ Pde_ = NullEntry
  /\ Pt_ = nullptr /\ Pte_ = NullEntry
  /\ Tape = <<>>
  /\ LastVa = 0
  /\ Out = <<>>
  /\ Yielded = <<>>
  /\ Filler = <<>>
  /\ Runs = <<>>
  /\ props = <<>>
  /\ Regions = <<>>
  /\ Region = NoRegion
  /\ Record = <<>>
  /\ Width_ = undefined /\ Height_ = undefined /\ Order_ = undefined
  /\ Regions_ = <<>>
  /\ ImgData = <<>>
  /\ NoPixelPointed
  /\ Walked = <<>>

\* An entry whose properties are about to be computed.
InitFolder ==
  /\ mem = [P \in TablePfns |-> [I \in 0 .. (NumberEntries - 1) |-> ZeroPte]]
  /\ DirectoryAddress_ = AddressFromPfn(0)
  /\ Pml4_ = 0 /\ Pml4e_ = EntryPtr(0, 0)
  /\ Pdpt_ = nullptr /\ Pdpte_ = NullEntry
  /\ Pd_ = nullptr /\ Pde_ = NullEntry
  /\ Pt_ = nullptr /\ Pte_ = NullEntry
  /\ Tape = <<>>
  /\ LastVa = 0
  /\ status = "folder"
  /\ Out = <<>>
  /\ Yielded = <<>>
  /\ Filler = <<>>
  /\ Runs = <<>>
  /\ \E E \in FolderInputs : props = [Entry |-> E, Computed |-> FALSE, Result |-> None]
  /\ NothingEmitted

\* const auto &Properties = PropertiesFromPtes(Entry->Pml4e, Entry->Pdpte,
\* Entry->Pde, Entry->Pte).
Fold ==
  /\ status = "folder"
  /\ ~props.Computed
  /\ props' = [props EXCEPT
                 !.Computed = TRUE,
                 !.Result = PropertiesFromPtes(props.Entry.Pml4e, props.Entry.Pdpte,
                                               props.Entry.Pde, props.Entry.Pte)]
  /\ UNCHANGED <<mem, DirectoryAddress_, Pml4_, Pml4e_, Pdpt_, Pdpte_, Pd_, Pde_,
                 Pt_, Pte_, Tape, LastVa, status, Out, Yielded, Filler, Runs,
                 regionVars, viewerVars, curve, Walked, render>>

NextFolder == Fold

SpecFolder == InitFolder /\ [][NextFolder]_vars

\* ------------------------------------------------------------ the curve
\* The orders of the curves.
Orders == 1 .. MaxOrder

\* A distance or a pixel of a curve of some order, given to the Hilbert
\* functions; nothing else of the program runs.
InitHilbert ==
  /\ InitFolderless
  /\ status = "curve"
  /\ render = <<>>
  /\ \E Order \in Orders :
       \/ \E Dist \in 0 .. ((4 ^ Order) - 1) :
            curve = [Order |-> Order, Start |-> "distance",
                     Distances |-> <<Dist>>, Coordinates |-> <<>>,
                     d2xy |-> <<>>, xy2d |-> <<>>]
       \/ \E X \in 0 .. (Width(Order) - 1), Y \in 0 .. (Height(Order) - 1) :
            curve = [Order |-> Order, Start |-> "coordinates",
                     Distances |-> <<>>, Coordinates |-> <<<<X, Y>>>>,
                     d2xy |-> <<>>, xy2d |-> <<>>]
       \/ \E Dist \in 0 .. ((4 ^ Order) - 2) :
            curve = [Order |-> Order, Start |-> "walk",
                     Distances |-> <<Dist>>, Coordinates |-> <<>>,
                     d2xy |-> <<>>, xy2d |-> <<>>]

\* The inputs and results a curve holds at most: a value converted one way
\* and back, or two consecutive distances and their pixels.
CallsOfCurve == IF curve.Start = "walk" THEN 4 ELSE 3

\* What the last call returned (or the input) is a distance.
DistanceIsLast ==
  IF curve.Start \in {"distance", "walk"}
  THEN Len(curve.Distances) > Len(curve.Coordinates)
  ELSE Len(curve.Distances) = Len(curve.Coordinates)

\* const auto &[X, Y] = Hilbert::CoordinatesFromDistance(Distance, Order),
\* and the viewer's this.d2xy(Distance) for the same distance and order.
ToCoordinates ==
  /\ status = "curve"
  /\ Len(curve.Distances) + Len(curve.Coordinates) < CallsOfCurve
  /\ DistanceIsLast
  /\ curve' = [curve EXCEPT
                 !.Coordinates =
                   Append(@, CoordinatesFromDistance(
                               curve.Distances[Len(curve.Distances)], curve.Order)),
                 !.d2xy =
                   Append(@, d2xy(curve.Distances[Len(curve.Distances)],
                                  curve.Order))]
  /\ UNCHANGED <<mem, DirectoryAddress_, Pml4_, Pml4e_, Pdpt_, Pdpte_, Pd_, Pde_,
                 Pt_, Pte_, Tape, LastVa, status, Out, Yielded, Filler, Runs,
                 props, regionVars, viewerVars, Walked, render>>

\* Hilbert::DistanceFromCoordinates(X, Y, Order), and the viewer's
\* this.xy2d(X, Y) for the same pixel and order.
ToDistance ==
  /\ status = "curve"
  /\ curve.Start # "walk"
  /\ Len(curve.Distances) + Len(curve.Coordinates) < CallsOfCurve
  /\ ~DistanceIsLast
  /\ LET Coord == curve.Coordinates[Len(curve.Coordinates)]
     IN curve' = [curve EXCEPT
                    !.Distances =
                      Append(@, DistanceFromCoordinates(Coord[1], Coord[2],
                                                        curve.Order)),
                    !.xy2d = Append(@, xy2d(Coord[1], Coord[2], curve.Order))]
  /\ UNCHANGED <<mem, DirectoryAddress_, Pml4_, Pml4e_, Pdpt_, Pdpte_, Pd_, Pde_,
                 Pt_, Pte_, Tape, LastVa, status, Out, Yielded, Filler, Runs,
                 props, regionVars, viewerVars, Walked, render>>

\* for (uint32_t Distance = 0; Distance < Hilbert::NumberPoints(Order);
\* Distance++): the step from a distance to the next one.
NextDistance ==
  /\ status = "curve"
  /\ curve.Start = "walk"
  /\ Len(curve.Distances) = 1 /\ Len(curve.Coordinates) = 1
  /\ curve' = [curve EXCEPT !.Distances = Append(@, curve.Distances[1] + 1)]
  /\ UNCHANGED <<mem, DirectoryAddress_, Pml4_, Pml4e_, Pdpt_, Pdpte_, Pd_, Pde_,
                 Pt_, Pte_, Tape, LastVa, status, Out, Yielded, Filler, Runs,
                 props, regionVars, viewerVars, Walked, render>>

NextHilbert == ToCoordinates \/ ToDistance \/ NextDistance

SpecHilbert == InitHilbert /\ [][NextHilbert]_vars

\* ================================================================ claims
\* The AddPage call the nested-loop walk makes for a leaf Next() returned.
AsAddPage(Entry) ==
  [Va |-> Entry.Va, Pml4e |-> Entry.Pml4e, Pdpte |-> Entry.Pdpte,
   Pde |-> Entry.Pde, Pte |-> Entry.Pte]

\* The leaves returned so far, as AddPage calls.
YieldedCalls == [I \in 1 .. Len(Yielded) |-> AsAddPage(Yielded[I])]

\* The walk ran to the end signal over a root table the dump has.
WalkDone == status = "done" /\ Pml4_ # nullptr

\* Lexicographic order of two index paths.
LexLess(P, Q) ==
  \E K \in 1 .. 4 : P[K] < Q[K] /\ \A J \in 1 .. (K - 1) : P[J] = Q[J]

\* Bytes covered by a leaf of a kind: 4 KiB, 2 MiB, 1 GiB on the scaled sizes.
KindBytes(Type) ==
  CASE Type = "Normal" -> PageSize
    [] Type = "Large" -> NumberEntries * PageSize
    [] Type = "Huge" -> NumberEntries * NumberEntries * PageSize

\* 4 KiB pages of a leaf of a kind: 1, 512, 262144 on the scaled sizes.
KindPixels(Type) ==
  CASE Type = "Normal" -> 1
    [] Type = "Large" -> NumberEntries
    [] Type = "Huge" -> NumberEntries * NumberEntries

\* Some present entry the walk visited referenced a table the dump lacks.
SomeTableMissing == \E I \in 1 .. Len(Out) : Out[I][1] \in {"PDPT", "PD", "PT"}

\* C1: when the walk has reached the end signal, the leaves Next() returned
\* are, leaf for leaf, the AddPage calls of the nested four-level loop walk.
C1_IteratorEqualsNestedWalk ==
  WalkDone => YieldedCalls = ComputePixels(DirectoryAddress_)

\* C2: the leaves returned by successive Next() calls are strictly ascending
\* in VirtualBase as unsigned integers, and in the lexicographic order of
\* their (Pml4, Pdpt, Pd, Pt) slots.
C2_StrictlyAscending ==
  \A I \in 1 .. (Len(Yielded) - 1) :
    /\ Yielded[I].Va < Yielded[I + 1].Va
    /\ LexLess(Runs[I].Path, Runs[I + 1].Path)

\* C2 witness: a user-half leaf directly followed by a kernel-half leaf.
C2_Witness ==
  \E I \in 1 .. (Len(Yielded) - 1) :
    /\ Runs[I].Path[1] < HalfEntries
    /\ Runs[I + 1].Path[1] >= HalfEntries
    /\ Yielded[I].Va < Yielded[I + 1].Va

\* C3 as stated: for two consecutive leaves, later.VirtualBase is strictly
\* greater than earlier.VirtualBase + kind_size(earlier).
C3_StrictlyBeyondEarlierEnd ==
  \A I \in 1 .. (Len(Yielded) - 1) :
    Yielded[I + 1].Va > Yielded[I].Va + KindBytes(Yielded[I].Type)

\* C3 amended: for two consecutive leaves, later.VirtualBase is at least
\* earlier.VirtualBase + kind_size(earlier): leaves never overlap, and
\* adjacent leaves meet exactly.
C3_AtOrBeyondEarlierEnd ==
  \A I \in 1 .. (Len(Yielded) - 1) :
    Yielded[I + 1].Va >= Yielded[I].Va + KindBytes(Yielded[I].Type)

\* C3 witness: a Large leaf directly followed by the leaf that starts where
\* it ends.
C3_Witness ==
  \E I \in 1 .. (Len(Yielded) - 1) :
    /\ Yielded[I].Type = "Large"
    /\ Yielded[I + 1].Va = Yielded[I].Va + KindBytes("Large")

\* C4: every leaf Next() returned lies on a path of present entries: the
\* entries of the dump at the leaf's slots are the ones it carries, and the
\* PML4E and PDPTE, the PDE unless the leaf is Huge, and the PTE when it is
\* Normal all have Present = 1.
C4_OnlyPresentEntries ==
  \A I \in 1 .. Len(Yielded) :
    LET E == Yielded[I]
        P == Runs[I].Path
    IN /\ E.Pml4e = mem[Pml4_][P[1]] /\ E.Pml4e.Present
       /\ E.Pdpte = mem[E.Pml4e.PageFrameNumber][P[2]] /\ E.Pdpte.Present
       /\ E.Type # "Huge" =>
            E.Pde = mem[E.Pdpte.PageFrameNumber][P[3]] /\ E.Pde.Present
       /\ E.Type = "Normal" =>
            E.Pte = mem[E.Pde.PageFrameNumber][P[4]] /\ E.Pte.Present

\* C4 witness: a Normal leaf was returned after an absent entry was skipped
\* in its page table.
C4_Witness ==
  \E I \in 1 .. Len(Yielded) :
    /\ Yielded[I].Type = "Normal"
    /\ Runs[I].Path[4] > 0
    /\ ~mem[Yielded[I].Pde.PageFrameNumber][Runs[I].Path[4] - 1].Present

\* C5: when a present entry references a table the dump lacks, the walk
\* still runs to the end signal having returned every leaf of the nested-loop
\* walk, which skips that entry and keeps its siblings.
C5_MissingTableSkipped ==
  (WalkDone /\ SomeTableMissing) => YieldedCalls = ComputePixels(DirectoryAddress_)

\* C6: when the dump has no page at the directory base, the run is rejected:
\* no leaf is returned, the tape stays empty and main stops with a failure
\* (the state "rejected"), never by a trap and never by running on.
C6_MissingRootRejected ==
  (GetPhysicalPage(DirectoryAddress_) = nullptr) =>
    /\ Yielded = <<>>
    /\ Tape = <<>>
    /\ status \in {"loop", "rejected"}

\* The entries of the levels a leaf uses: PML4E and PDPTE, the PDE unless
\* the leaf is Huge, the PTE when it is Normal.
UsedLevels(Entry) ==
  CASE Entry.Type = "Huge" -> {Entry.Pml4e, Entry.Pdpte}
    [] Entry.Type = "Large" -> {Entry.Pml4e, Entry.Pdpte, Entry.Pde}
    [] Entry.Type = "Normal" -> {Entry.Pml4e, Entry.Pdpte, Entry.Pde, Entry.Pte}

\* The User* classes, the classes with Write, the classes with Exec.
UserClasses == {UserRead, UserReadExec, UserReadWrite, UserReadWriteExec}
KernelClasses == {KernelRead, KernelReadExec, KernelReadWrite, KernelReadWriteExec}
WriteClasses == {UserReadWrite, UserReadWriteExec, KernelReadWrite, KernelReadWriteExec}
ExecClasses == {UserReadExec, UserReadWriteExec, KernelReadExec, KernelReadWriteExec}

\* The class of (user, writable, executable).
ClassOf(User, Writable, Executable) ==
  CHOOSE C \in UserClasses \cup KernelClasses :
    /\ (C \in UserClasses) = User
    /\ (C \in WriteClasses) = Writable
    /\ (C \in ExecClasses) = Executable

\* The fold over the used levels: user and writable are the AND, no_execute
\* the OR, of the bits of the used levels.
UsedLevelsFold(Entry) ==
  ClassOf(\A E \in UsedLevels(Entry) : E.UserAccessible,
          \A E \in UsedLevels(Entry) : E.Write,
          ~(\E E \in UsedLevels(Entry) : E.NoExecute))

\* The tape entries the loop added for the I-th returned leaf.
LeafPixels(I) == {D \in (Runs[I].Before + 1) .. Runs[I].After : ~Filler[D]}

\* C7: every tape entry added for a leaf is the fold of the permission bits
\* over the levels the leaf uses (so a Huge leaf with U=1, W=1, NX=0 in its
\* PML4E and PDPTE is UserReadWriteExec).
C7_ProtectionIsUsedLevelsFold ==
  \A I \in 1 .. Len(Yielded) :
    \A D \in LeafPixels(I) : Tape[D] = UsedLevelsFold(Yielded[I])

\* C8: the computed class is monotone in the bits of the used levels: a used
\* level with UserAccessible = 0 gives a Kernel* class, one with NoExecute = 1
\* a class without Exec, one with Write = 0 a class without Write.
C8_FolderMonotone ==
  (status = "folder" /\ props.Computed) =>
    /\ (\E E \in UsedLevels(props.Entry) : ~E.UserAccessible)
         => props.Result \in KernelClasses
    /\ (\E E \in UsedLevels(props.Entry) : E.NoExecute)
         => props.Result \notin ExecClasses
    /\ (\E E \in UsedLevels(props.Entry) : ~E.Write)
         => props.Result \notin WriteClasses

\* C8 witness: a Normal path whose PDE alone clears UserAccessible, whose PTE
\* alone sets NoExecute and whose PDPTE alone clears Write has been folded.
C8_Witness ==
  /\ status = "folder" /\ props.Computed
  /\ props.Entry.Type = "Normal"
  /\ ~props.Entry.Pde.UserAccessible
  /\ \A E \in UsedLevels(props.Entry) \ {props.Entry.Pde} : E.UserAccessible
  /\ props.Entry.Pte.NoExecute
  /\ \A E \in UsedLevels(props.Entry) \ {props.Entry.Pte} : ~E.NoExecute
  /\ ~props.Entry.Pdpte.Write
  /\ \A E \in UsedLevels(props.Entry) \ {props.Entry.Pdpte} : E.Write
  /\ props.Result = KernelRead

\* C9: a tape entry is None exactly when the gap loop added it, and every
\* tape entry is one of the nine classes 0..8.
C9_NoneIffFiller ==
  /\ Len(Filler) = Len(Tape)
  /\ \A D \in 1 .. Len(Tape) :
       /\ (Tape[D] = None) <=> Filler[D]
       /\ Tape[D] \in 0 .. 8

\* C9 witness: the tape holds a gap entry and, after it, a leaf entry.
C9_Witness ==
  \E D \in 1 .. (Len(Tape) - 1) :
    /\ Filler[D] /\ Tape[D] = None
    /\ ~Filler[D + 1] /\ Tape[D + 1] # None

\* C10: for each returned leaf the loop added exactly 1 (Normal), 512 (Large)
\* or 262144 (Huge) entries (on the scaled sizes), consecutive at the end of
\* what the turn added, all equal to the leaf's protection, and left LastVa
\* at the leaf's last page, VirtualBase + (pixels - 1) * 4096.
C10_PixelsPerLeaf ==
  \A I \in 1 .. Len(Yielded) :
    LET E == Yielded[I]
        Count == KindPixels(E.Type)
    IN /\ LeafPixels(I) = (Runs[I].After - Count + 1) .. Runs[I].After
       /\ Runs[I].After - Count >= Runs[I].Before
       /\ \A D \in LeafPixels(I) :
            Tape[D] = PropertiesFromPtes(E.Pml4e, E.Pdpte, E.Pde, E.Pte)
       /\ Runs[I].LastVa = E.Va + (Count - 1) * PageSize
       /\ I = Len(Yielded) => LastVa = Runs[I].LastVa

\* C10 witness: a Huge, a Large and a Normal leaf have all been expanded.
C10_Witness ==
  \A T \in PageType_t :
    \E I \in 1 .. Len(Yielded) :
      Yielded[I].Type = T /\ Cardinality(LeafPixels(I)) = KindPixels(T)

\* The number of absent 4 KiB pages between the end of the I-th returned leaf
\* and the VirtualBase of the next one.
GapPages(I) ==
  (Yielded[I + 1].Va - (Yielded[I].Va + KindBytes(Yielded[I].Type))) \div PageSize

\* The tape entries the gap loop added in the turn of the I-th returned leaf.
FillerPixels(I) == {D \in (Runs[I].Before + 1) .. Runs[I].After : Filler[D]}

C12_GapBeyondCapFillsCap ==
  \A I \in 1 .. (Len(Yielded) - 1) :
    GapPages(I) > MaxGapEntries =>
      /\ Runs[I + 1].Before = Runs[I].After
      /\ FillerPixels(I + 1) =
           (Runs[I].After + 1) .. (Runs[I].After + MaxGapEntries)
      /\ \A D \in FillerPixels(I + 1) : Tape[D] = None
      /\ LeafPixels(I + 1) =
           (Runs[I].After + MaxGapEntries + 1) .. Runs[I + 1].After

\* The VirtualBase of the builder's first region.
FirstRegionBase == IF Regions # <<>> THEN Regions[1].VirtualBase ELSE Region

\* C13: no filler entry is added before the first leaf, whatever its
\* VirtualBase: the first tape entry is the first leaf's protection and the
\* first region's VirtualBase is the first leaf's VirtualBase.
C13_NoFillerBeforeFirstLeaf ==
  Len(Yielded) >= 1 =>
    /\ FillerPixels(1) = {}
    /\ Tape[1] = PropertiesFromPtes(Yielded[1].Pml4e, Yielded[1].Pdpte,
                                    Yielded[1].Pde, Yielded[1].Pte)
    /\ FirstRegionBase = Yielded[1].Va

\* The build is over: the walk ran to the end signal and the final region
\* is closed.
Built == status \in {"done", "emitted", "viewed"} /\ Pml4_ # nullptr

\* C14: after the build the regions partition [0, tape length): each region
\* ends after it starts, a region starts where the one before it ends (the
\* first at 0) and the last ends at the tape length; and the Regions_ list of
\* the viewer after parseFile has its first Start equal to 0 and Start values
\* that never decrease.
C14_RegionsPartitionTape ==
  /\ Built =>
       /\ \A I \in 1 .. Len(Regions) : RegionStart(I) < Regions[I].EndDistance
       /\ IF Regions = <<>>
          THEN Tape = <<>>
          ELSE Regions[Len(Regions)].EndDistance = Len(Tape)
  /\ status = "viewed" =>
       /\ Regions_ # <<>>
       /\ Regions_[1].Start = 0
       /\ \A I \in 1 .. (Len(Regions_) - 1) :
            Regions_[I].Start <= Regions_[I + 1].Start

\* C14 witness: a tape of two regions was built and the viewer has parsed
\* both region headers.
C14_Witness ==
  /\ status = "viewed"
  /\ Len(Regions) >= 2
  /\ Len(Regions_) >= 2
  /\ Regions_[2].Start = Regions[1].EndDistance

\* The value of LastVa when the turn of the I-th returned leaf began.
LastVaBefore(I) == IF I = 1 THEN 0 ELSE Runs[I - 1].LastVa

\* The address of the 4 KiB page the D-th tape entry was appended for: the
\* gap loop appends for CurLastVa + Page::Size, the pixel loop for CurrentVa.
PageOf(D) ==
  LET I == CHOOSE J \in 1 .. Len(Runs) : D \in (Runs[J].Before + 1) .. Runs[J].After
      Fillers == Cardinality(FillerPixels(I))
  IN IF Filler[D]
     THEN LastVaBefore(I) + ((D - Runs[I].Before) * PageSize)
     ELSE Yielded[I].Va + ((D - (Runs[I].Before + Fillers + 1)) * PageSize)

\* The address the builder's regions give to distance Distance.
RegionAddress(Distance) ==
  LET I == CHOOSE J \in 1 .. Len(Regions) :
             RegionStart(J) <= Distance /\ Distance < Regions[J].EndDistance
  IN Regions[I].VirtualBase + ((Distance - RegionStart(I)) * PageSize)

\* C15: for every tape distance d, appended for the page at address A, the
\* region that holds d gives VirtualBase + (d - start) * page size = A, and
\* the viewer's addressFromCoord at the coordinates of d returns A.
C15_ReverseMappingExact ==
  /\ Built =>
       \A D \in 1 .. Len(Tape) : RegionAddress(D - 1) = PageOf(D)
  /\ status = "viewed" =>
       \A D \in 1 .. Len(Tape) :
         /\ D - 1 < Width_ * Height_
         /\ LET Coord == d2xyAt[Order_][D - 1]
            IN addressFromCoord(Coord.X, Coord.Y) = PageOf(D)

RECURSIVE ExpandedPixels(_)

\* The sum of the expanded pixels of the first I returned leaves.
ExpandedPixels(I) ==
  IF I = 0 THEN 0 ELSE ExpandedPixels(I - 1) + KindPixels(Yielded[I].Type)

ValueOf(Colour) ==
  IF \E P \in DOMAIN Palette_ : Palette_[P] \o <<255>> = Colour
  THEN CHOOSE P \in DOMAIN Palette_ : Palette_[P] \o <<255>> = Colour
  ELSE NaN

\* The pixel of ImgData the viewer colours for distance Distance.
PixelAt(Distance) ==
  LET Coord == d2xyAt[Order_][Distance]
  IN (Coord.Y * Width_) + Coord.X

\* C17: for the tape and the regions the builder produced, parseFile on the
\* emitted record recovers the same sequence of protection values, one per
\* tape entry, and the same regions with the same start distances.
C17_RecordRoundTrip ==
  status = "viewed" =>
    /\ \A D \in 1 .. Len(Tape) :
         /\ D - 1 < Width_ * Height_
         /\ ValueOf(ImgData[PixelAt(D - 1)]) = Tape[D]
    /\ Len(Regions_) = Len(Regions)
    /\ \A I \in 1 .. Len(Regions_) :
         /\ Regions_[I].Va = Regions[I].VirtualBase
         /\ Regions_[I].Start = RegionStart(I)

\* CoordinatesFromDistance for every distance of every canvas, computed once.
CoordinatesAt ==
  [Order \in CanvasOrders |->
     [Dist \in 0 .. ((4 ^ Order) - 1) |-> CoordinatesFromDistance(Dist, Order)]]

\* The pixels of ImgData parseFile has coloured.
Coloured == {Pixel \in DOMAIN ImgData : ImgData[Pixel][4] = 255}

\* C18: for the record of a tape, whose header is width = height = 2^order
\* with order = floor(log2(tape length)) / 2, the viewer colours exactly
\* tape-length pixels, the one at the coordinates of distance d with the
\* colour of tape entry d for d in 0 .. tape length - 1, and leaves every
\* other pixel of the canvas uncoloured.
C18_ViewerColoursWholeTape ==
  status = "viewed" =>
    /\ Order_ = OrderOf(Len(Tape))
    /\ Width_ = 2 ^ Order_ /\ Height_ = 2 ^ Order_
    /\ Cardinality(Coloured) = Len(Tape)
    /\ \A D \in 1 .. Len(Tape) :
         /\ D - 1 < Width_ * Height_
         /\ LET Coord == CoordinatesAt[Order_][D - 1]
            IN ImgData[(Coord[2] * Width_) + Coord[1]] = Palette_[Tape[D]] \o <<255>>

C20_CoordinatesRoundTrip ==
  (status = "curve" /\ curve.Start = "coordinates") =>
    /\ \A K \in 1 .. Len(curve.Distances) :
         curve.Distances[K] \in 0 .. ((4 ^ curve.Order) - 1)
    /\ Len(curve.Coordinates) = 2 => curve.Coordinates[2] = curve.Coordinates[1]

\* C20 witness: a pixel off the diagonal of the curve of the largest order
\* was converted to a distance and back.
C20_Witness ==
  /\ status = "curve" /\ curve.Start = "coordinates"
  /\ curve.Order = MaxOrder
  /\ Len(curve.Coordinates) = 2 /\ Len(curve.Distances) = 1
  /\ curve.Coordinates[1] = <<(2 ^ MaxOrder) - 1, 1>>

\* C21: for every order N of the curve and every distance d with
\* d + 1 < 4^N, the pixels of d and d + 1 are orthogonally adjacent:
\* |x(d) - x(d + 1)| + |y(d) - y(d + 1)| = 1.
C21_ConsecutiveDistancesAdjacent ==
  (status = "curve" /\ curve.Start = "walk" /\ Len(curve.Coordinates) = 2) =>
    LET A == curve.Coordinates[1]
        B == curve.Coordinates[2]
        Dx == IF A[1] >= B[1] THEN A[1] - B[1] ELSE B[1] - A[1]
        Dy == IF A[2] >= B[2] THEN A[2] - B[2] ELSE B[2] - A[2]
    IN Dx + Dy = 1

\* C21 witness: the pixels of the last distance of the first quadrant of the
\* curve of the largest order and of the first distance of the second one.
C21_Witness ==
  /\ status = "curve" /\ curve.Start = "walk"
  /\ curve.Order = MaxOrder
  /\ curve.Distances = <<(4 ^ (MaxOrder - 1)) - 1, 4 ^ (MaxOrder - 1)>>
  /\ Len(curve.Coordinates) = 2

Canonical(Path) ==
  [Offset    |-> 0,
   PtIndex   |-> Path[4],
   PdIndex   |-> Path[3],
   PdptIndex |-> Path[2],
   Pml4Index |-> Path[1],
   Reserved  |-> IF Path[1] >= HalfEntries THEN ReservedOnes ELSE 0]

\* C23: for all indices a, b, c, d of a table, VirtualAddress_t(a, b, c,
\* d).U64() is the canonical encoding of the indices: offset 0, the four
\* index fields decode back to (a, b, c, d), and the Reserved bits are all
\* ones when the top bit of a is set and all zeros otherwise; hence the
\* VirtualBase of every leaf Next() returned is canonical and page-aligned.
C23_VirtualAddressCanonical ==
  /\ \A A \in 0 .. (NumberEntries - 1), B \in 0 .. (NumberEntries - 1),
        C \in 0 .. (NumberEntries - 1), D \in 0 .. (NumberEntries - 1) :
       /\ U64(VirtualAddress_t(A, B, C, D)) \in 0 .. (U64Modulus - 1)
       /\ VirtualAddressOf(U64(VirtualAddress_t(A, B, C, D)))
            = Canonical(<<A, B, C, D>>)
  /\ \A I \in 1 .. Len(Yielded) :
       /\ Yielded[I].Va % PageSize = 0
       /\ VirtualAddressOf(Yielded[I].Va) = Canonical(Runs[I].Path)

\* C23 witness: Next() returned a Normal leaf of the upper half whose four
\* indices are the last slot of each table, after a leaf of the lower half.
C23_Witness ==
  \E I \in 2 .. Len(Yielded) :
    /\ Yielded[I].Type = "Normal"
    /\ Runs[I].Path = <<NumberEntries - 1, NumberEntries - 1,
                        NumberEntries - 1, NumberEntries - 1>>
    /\ Runs[1].Path[1] < HalfEntries
    /\ VirtualAddressOf(Yielded[I].Va).Reserved = ReservedOnes

\* C24: in every leaf Next() returned the entry-address fields are the
\* physical addresses of the entries on its path: the address of the table
\* plus the index times the size of an entry, at each level the leaf has.
C24_EntryAddressesAbsolute ==
  \A I \in 1 .. Len(Yielded) :
    LET E == Yielded[I]
        P == Runs[I].Path
    IN /\ E.Pml4eAddress = DirectoryAddress_ + (P[1] * EntrySize)
       /\ E.PdpteAddress
            = AddressFromPfn(E.Pml4e.PageFrameNumber) + (P[2] * EntrySize)
       /\ E.Type \in {"Large", "Normal"} =>
            E.PdeAddress
              = AddressFromPfn(E.Pdpte.PageFrameNumber) + (P[3] * EntrySize)
       /\ E.Type = "Normal" =>
            E.PteAddress
              = AddressFromPfn(E.Pde.PageFrameNumber) + (P[4] * EntrySize)

\* The table an entry references, nullptr when the dump does not have it.
TableOf(Entry) == GetPhysicalPage(AddressFromPfn(Entry.PageFrameNumber))

\* The slots of a table of the dump.
Slots == 0 .. (NumberEntries - 1)

\* The present PML4 entries of the root whose PDPT is in the dump, as paths.
PdptPaths ==
  {<<A>> : A \in {A \in Slots : /\ mem[Pml4_][A].Present
                                /\ TableOf(mem[Pml4_][A]) # nullptr}}

\* The present PDPT entries reached through them: path and entry.
PdptEntries ==
  {[Path |-> <<P[1], B>>, Entry |-> mem[TableOf(mem[Pml4_][P[1]])][B]] :
     P \in PdptPaths, B \in Slots}

\* The present PD entries reached through PDPT entries that are present, not
\* super-pages, and whose PD is in the dump.
PdEntries ==
  {[Path |-> <<U.Path[1], U.Path[2], C>>, Entry |-> mem[TableOf(U.Entry)][C]] :
     U \in {U \in PdptEntries : /\ U.Entry.Present /\ ~U.Entry.LargePage
                                /\ TableOf(U.Entry) # nullptr},
     C \in Slots}

\* The PT entries reached through PD entries that are present, not super-pages,
\* and whose PT is in the dump.
PtEntries ==
  {[Path |-> <<U.Path[1], U.Path[2], U.Path[3], D>>,
    Entry |-> mem[TableOf(U.Entry)][D]] :
     U \in {U \in PdEntries : /\ U.Entry.Present /\ ~U.Entry.LargePage
                              /\ TableOf(U.Entry) # nullptr},
     D \in Slots}

\* The leaves the hierarchy declares: kind, path (zero below the leaf's
\* level) and the deepest entry of the path.
DeclaredLeaves ==
  {[Type |-> "Huge", Path |-> <<U.Path[1], U.Path[2], 0, 0>>, Entry |-> U.Entry] :
     U \in {U \in PdptEntries : U.Entry.Present /\ U.Entry.LargePage}}
  \cup
  {[Type |-> "Large", Path |-> <<U.Path[1], U.Path[2], U.Path[3], 0>>,
    Entry |-> U.Entry] :
     U \in {U \in PdEntries : U.Entry.Present /\ U.Entry.LargePage}}
  \cup
  {[Type |-> "Normal", Path |-> U.Path, Entry |-> U.Entry] :
     U \in {U \in PtEntries : U.Entry.Present}}

\* The returned leaves of a declared leaf: same kind, same path.
YieldsOf(Leaf) ==
  {I \in 1 .. Len(Yielded) :
     Yielded[I].Type = Leaf.Type /\ Runs[I].Path = Leaf.Path}

\* C25: when the walk has reached the end signal, each present PDPT entry
\* with LargePage set was returned as exactly one Huge leaf, each present PD
\* entry with LargePage set as exactly one Large leaf, each present PT entry as
\* exactly one Normal leaf, each with PhysicalBase the frame number of that
\* entry times the page size; and every returned leaf is one of these, so
\* that none lies beneath a super-page entry.
C25_OneLeafPerLeafEntry ==
  WalkDone =>
    /\ \A Leaf \in DeclaredLeaves :
         /\ Cardinality(YieldsOf(Leaf)) = 1
         /\ \A I \in YieldsOf(Leaf) :
              Yielded[I].Pa = AddressFromPfn(Leaf.Entry.PageFrameNumber)
    /\ \A I \in 1 .. Len(Yielded) :
         \E Leaf \in DeclaredLeaves : I \in YieldsOf(Leaf)

\* main: the value of each return statement, by the line printed before it
\* (`return false` converts to 0).
ExitCode(Printed) ==
  CASE Printed = "./clairvoyance <dmp>" -> 0
    [] Printed = "Parse failed" -> 0
    [] Printed = "Write failed" -> 0
    [] Printed = "Done" -> 1

\* main has printed "Done" and returned: the walk ran to its end and the
\* output was written.
MainReturnedDone == status \in {"emitted", "viewed"}

\* C26: the exit code is 0 when the walk and the emission succeed, and
\* non-zero when the dump cannot be parsed or the output cannot be written.
C26_ExitCodeZeroOnSuccess ==
  MainReturnedDone =>
    /\ ExitCode("Done") = 0
    /\ ExitCode("Parse failed") # 0
    /\ ExitCode("Write failed") # 0

\* The level of the table a leaf's deepest entry lies in: PDPT 2, PD 3, PT 4.
LevelOf(Type) ==
  CASE Type = "Huge" -> 2 [] Type = "Large" -> 3 [] Type = "Normal" -> 4

\* On entry to Next(), whether the cursor of a level has moved since the last
\* descent from it: the cursor of the last returned leaf's level was
\* incremented before the return, the cursors above it still point at the
\* entries they descended from.
MovedOnEntry ==
  [K \in 1 .. 4 |-> Yielded # <<>> /\ K = LevelOf(Yielded[Len(Yielded)].Type)]

RECURSIVE Descents(_, _, _, _, _)

\* Next(), followed for its descents: the for loop of level K entered at its
\* condition, with the four tables T and the four cursors C.  Each descent
\* from an entry into its child table is recorded with the level, whether
\* the cursor of the level moved since the last descent from it, and the
\* child cursor the descent starts with.  Ends where Next() returns.
Descents(T, C, K, Moved, Trace) ==
  IF ~BelowLimit(C[K], T[K])
  THEN IF K = 1
       THEN [T |-> T, C |-> C, Trace |-> Trace]
       ELSE Descents(T, [C EXCEPT ![K - 1] = Advance(@)], K - 1,
                     [Moved EXCEPT ![K - 1] = TRUE], Trace)
  ELSE LET Entry == Deref(C[K])
           Table == TableOf(Entry)
           Skipped == [C EXCEPT ![K] = Advance(@)]
           Cursor == NewCursor(T[K + 1], Table, C[K + 1])
       IN IF ~Entry.Present
          THEN Descents(T, Skipped, K, [Moved EXCEPT ![K] = TRUE], Trace)
          ELSE IF K = 4 \/ (K \in {2, 3} /\ Entry.LargePage)
          THEN [T |-> [L \in 1 .. 4 |-> IF L > K THEN nullptr ELSE T[L]],
                C |-> [L \in 1 .. 4 |-> IF L > K THEN NullEntry ELSE Skipped[L]],
                Trace |-> Trace]
          ELSE IF Table = nullptr
          THEN Descents([T EXCEPT ![K + 1] = nullptr], Skipped, K,
                        [Moved EXCEPT ![K] = TRUE], Trace)
          ELSE Descents([T EXCEPT ![K + 1] = Table],
                        [C EXCEPT ![K + 1] = Cursor], K + 1,
                        [Moved EXCEPT ![K] = FALSE],
                        Append(Trace, [Level |-> K, Moved |-> Moved[K],
                                       Parent |-> C[K], Table |-> Table,
                                       Cursor |-> Cursor]))

\* The descents of the Next() call main makes in the current state.
DescentsOfNext ==
  Descents(<<Pml4_, Pdpt_, Pd_, Pt_>>, <<Pml4e_, Pdpte_, Pde_, Pte_>>, 1,
           MovedOnEntry, <<>>)

\* main is about to call Next() on an iterator whose root table is in the dump.
AboutToCallNext == status = "loop" /\ Pml4_ # nullptr

\* C27: in every Next() call, each descent from a parent entry the cursor
\* moved to since the last descent from that level starts the child cursor at
\* slot 0 of the child table.
C27_ChildCursorStartsAtFirstSlot ==
  AboutToCallNext =>
    \A I \in 1 .. Len(DescentsOfNext.Trace) :
      LET Descent == DescentsOfNext.Trace[I]
      IN Descent.Moved => Descent.Cursor = EntryPtr(Descent.Table, 0)

\* Next() has just returned a leaf to main's loop.
LeafReturned == AboutToCallNext /\ Yielded # <<>>

\* The leaf Next() returned last.
LastLeaf == Yielded[Len(Yielded)]

\* The slots of the last leaf's path, read from its VirtualBase.
LastSlots ==
  LET Va == VirtualAddressOf(LastLeaf.Va)
  IN <<Va.Pml4Index, Va.PdptIndex, Va.PdIndex, Va.PtIndex>>

\* The iterator's four cursors and four tables.
Cursors == <<Pml4e_, Pdpte_, Pde_, Pte_>>
Tables == <<Pml4_, Pdpt_, Pd_, Pt_>>

\* C28: when Next() has returned a leaf found at level k, the cursor of
\* level k points one slot past the leaf's entry and every cursor above still
\* points at the entry of the leaf's path, in its table; the next call of
\* Next() descends again from exactly these entries and keeps each child
\* cursor where it is, down to the cursor of level k.
C28_ResumesAfterLeaf ==
  LeafReturned =>
    LET K == LevelOf(LastLeaf.Type)
        Trace == DescentsOfNext.Trace
    IN /\ Cursors[K] = EntryPtr(Tables[K], LastSlots[K] + 1)
       /\ \A J \in 1 .. (K - 1) : Cursors[J] = EntryPtr(Tables[J], LastSlots[J])
       /\ Len(Trace) >= K - 1
       /\ \A J \in 1 .. (K - 1) :
            /\ Trace[J].Level = J
            /\ Trace[J].Parent = Cursors[J]
            /\ Trace[J].Table = Tables[J + 1]
            /\ Trace[J].Cursor = Cursors[J + 1]

\* C28 witness: a Normal leaf was returned from slot 0 of its page table, and
\* the next call resumes at slot 1, which is below the limit, after three
\* descents that keep the cursors.
C28_Witness ==
  /\ LeafReturned
  /\ LastLeaf.Type = "Normal"
  /\ Pte_ = EntryPtr(Pt_, 1)
  /\ BelowLimit(Pte_, Pt_)
  /\ Len(DescentsOfNext.Trace) >= 3
  /\ DescentsOfNext.Trace[3].Cursor = Pte_

\* C29: in every returned Huge leaf Pde, PdeAddress, Pte and PteAddress are
\* zero, and in every returned Large leaf Pte and PteAddress are zero,
\* whatever leaves were returned before it.
C29_FieldsBelowSuperPageZero ==
  \A I \in 1 .. Len(Yielded) :
    /\ Yielded[I].Type = "Huge" =>
         /\ Yielded[I].Pde = ZeroPte /\ Yielded[I].PdeAddress = 0
         /\ Yielded[I].Pte = ZeroPte /\ Yielded[I].PteAddress = 0
    /\ Yielded[I].Type = "Large" =>
         /\ Yielded[I].Pte = ZeroPte /\ Yielded[I].PteAddress = 0

\* C29 witness: a Normal leaf with non-zero Pde and Pte fields was returned,
\* and after it a Large leaf and a Huge leaf.
C29_Witness ==
  \E I, J, K \in 1 .. Len(Yielded) :
    /\ I < J /\ I < K
    /\ Yielded[I].Type = "Normal"
    /\ Yielded[I].Pte # ZeroPte /\ Yielded[I].PteAddress # 0
    /\ Yielded[J].Type = "Large"
    /\ Yielded[K].Type = "Huge"

\* --------------------------------------- the run after a LargePage flip
\* A leaf as main uses it: VirtualBase, PhysicalBase, kind and protection.
LeafOf(Entry) ==
  [Va |-> Entry.Va, Pa |-> Entry.Pa, Type |-> Entry.Type,
   Properties |-> PropertiesFromPtes(Entry.Pml4e, Entry.Pdpte, Entry.Pde, Entry.Pte)]

\* The leaves Next() has returned to main.
LeavesYielded == [I \in 1 .. Len(Yielded) |-> LeafOf(Yielded[I])]

\* A table with the LargePage bit of the entry of one slot inverted.
LargePageInverted(Table, Slot) == [Table EXCEPT ![Slot].LargePage = ~@]

\* main on a dump whose root table is in the dump.
InitLargePage == Init /\ Pml4_ # nullptr

\* After a run that reached the end of the walk, the program is run again on
\* the dump that differs in the LargePage bit of one present entry of the
\* root table: the iterator is constructed anew (Reset()), the tape is empty
\* and LastVa is 0; the first run's leaves and tape are kept.
RunOnInverted ==
  /\ status = "done"
  /\ Walked = <<>>
  /\ \E Slot \in Slots :
       /\ mem[Pml4_][Slot].Present
       /\ mem' = [mem EXCEPT ![Pml4_] = LargePageInverted(@, Slot)]
       /\ Walked' = <<[Slot |-> Slot, Leaves |-> LeavesYielded, Tape |-> Tape]>>
  /\ Pml4e_' = EntryPtr(Pml4_, 0)
  /\ Pdpt_' = nullptr /\ Pdpte_' = NullEntry
  /\ Pd_' = nullptr /\ Pde_' = NullEntry
  /\ Pt_' = nullptr /\ Pte_' = NullEntry
  /\ Tape' = <<>>
  /\ LastVa' = 0
  /\ status' = "loop"
  /\ Out' = <<>>
  /\ Yielded' = <<>>
  /\ Filler' = <<>>
  /\ Runs' = <<>>
  /\ Regions' = <<>>
  /\ Region' = NoRegion
  /\ UNCHANGED <<DirectoryAddress_, Pml4_, props, viewerVars, curve, render>>

NextLargePage == LoopEntry \/ LoopEnd \/ RunOnInverted

SpecLargePage == InitLargePage /\ [][NextLargePage]_vars

\* The pages the walk reaches as a PDPT, a PD or a PT.
ChildTables ==
  {TableOf(mem[Pml4_][P[1]]) : P \in PdptPaths}
  \cup {TableOf(U.Entry) :
          U \in {U \in PdptEntries \cup PdEntries :
                   /\ U.Entry.Present /\ ~U.Entry.LargePage
                   /\ TableOf(U.Entry) # nullptr}}

\* Both runs reached the end of the walk.
BothWalked == status = "done" /\ Walked # <<>>

SpecTermination ==
  Init /\ [][Next]_vars /\ WF_vars(LoopEntry) /\ WF_vars(LoopEnd)

\* The most leaves a hierarchy of four levels has: one per slot of each page
\* table of each path.
MaxLeaves == NumberEntries * NumberEntries * NumberEntries * NumberEntries

\* C31: for every dump with its root table, shared and self-referencing
\* tables included, the loop that calls Next() reaches the end signal, and
\* Next() never returns more leaves than four levels of slots hold.
C31_WalkTerminates ==
  /\ [](Len(Yielded) <= MaxLeaves)
  /\ AboutToCallNext ~> WalkDone

\* C31 witness: the walk reached the end signal over a hierarchy whose root
\* page is also reached as a lower-level table, after returning leaves.
C31_Witness ==
  /\ WalkDone
  /\ Pml4_ \in ChildTables
  /\ Len(Yielded) >= 2

\* C32: once Next() has returned the end signal, the PML4 cursor is at the
\* end of the root table, and a further call of Next() returns the end
\* signal again, prints nothing and leaves every table and cursor as it is, so
\* that every later call does the same.
C32_EndSignalIsFinal ==
  WalkDone =>
    /\ Pml4e_ = Limit(Pml4_)
    /\ NextEntry(Iterator) = Returned(Iterator, nullopt, <<>>)

\* C32 witness: the end signal came after leaves were returned from the
\* last slot of the root table, whose PDPT the iterator still holds.
C32_Witness ==
  /\ WalkDone
  /\ Len(Yielded) >= 2
  /\ Runs[Len(Runs)].Path[1] = NumberEntries - 1
  /\ Pdpt_ # nullptr /\ Pdpte_ = Limit(Pdpt_)

\* The line main prints when the gap loop before leaf I + 1 stops at the cap.
GapDiagnostic(I) == <<"Huge gap", Runs[I].LastVa, Yielded[I + 1].Va>>

\* The lines printed so far, as a set.
Lines == {Out[K] : K \in 1 .. Len(Out)}

\* C33: the 'Huge gap' line is printed for the gap between two consecutive
\* leaves if and only if the gap holds more than MaxGapEntries absent pages;
\* a gap of exactly MaxGapEntries pages is filled and not reported.
C33_DiagnosticIffGapBeyondCap ==
  \A I \in 1 .. (Len(Yielded) - 1) :
    GapDiagnostic(I) \in Lines <=> GapPages(I) > MaxGapEntries

\* --------------------------------------------------------- the renderer
\* The largest binary logarithm of the sizes of the tapes that are rendered.
MaxTapeLog2 == 26

\* The sizes of the tapes: those around each power of two.
TapeSizes ==
  {Size \in {(2 ^ K) + D : K \in 0 .. MaxTapeLog2, D \in -2 .. 2} : Size >= 1}

\* The columns and rows of the canvas at which the loop is looked at: the
\* first and the last ones.
Sampled(Order) ==
  {X \in {0, 1, 2, 3, Width(Order) - 2, Width(Order) - 1} :
     X \in 0 .. (Width(Order) - 1)}

\* Visualizer_t::Write is entered with a tape of some size.
InitWrite ==
  /\ InitFolderless
  /\ status = "write"
  /\ curve = <<>>
  /\ \E Size \in TapeSizes :
       render = [Size |-> Size, Order |-> undefined, Written |-> <<>>]

\* Write: Log2, Order, Height and Width are computed from Tape_.size().
LayOut ==
  /\ status = "write"
  /\ render.Order = undefined
  /\ render' = [render EXCEPT !.Order = OrderOf(render.Size)]
  /\ UNCHANGED <<mem, DirectoryAddress_, Pml4_, Pml4e_, Pdpt_, Pdpte_, Pd_, Pde_,
                 Pt_, Pte_, Tape, LastVa, status, Out, Yielded, Filler, Runs,
                 props, regionVars, viewerVars, curve, Walked>>

\* Write: the body of for (Y ...) for (X ...) at one pixel: its distance on
\* the curve, and whether the pixel is taken from the tape or is White.
WritePixel ==
  /\ status = "write"
  /\ render.Order # undefined
  /\ render.Written = <<>>
  /\ \E X \in Sampled(render.Order), Y \in Sampled(render.Order) :
       \E Distance \in {DistanceFromCoordinates(X, Y, render.Order)} :
         render' = [render EXCEPT
                      !.Written = <<[X |-> X, Y |-> Y, Distance |-> Distance,
                                     White |-> ~(Distance < render.Size)]>>]
  /\ UNCHANGED <<mem, DirectoryAddress_, Pml4_, Pml4e_, Pdpt_, Pdpte_, Pd_, Pde_,
                 Pt_, Pte_, Tape, LastVa, status, Out, Yielded, Filler, Runs,
                 props, regionVars, viewerVars, curve, Walked>>

NextWrite == LayOut \/ WritePixel

SpecWrite == InitWrite /\ [][NextWrite]_vars

\* C34: in the renderer, for every non-empty tape, the canvas of the order
\* computed from the tape's size has at most as many pixels as the tape has
\* entries, and no pixel written is White.
C34_NoWhitePixel ==
  (status = "write" /\ render.Order # undefined) =>
    /\ Width(render.Order) * Height(render.Order) <= render.Size
    /\ \A K \in 1 .. Len(render.Written) : ~render.Written[K].White


\* ---- the viewer's mouse events ----

\* PixelClick_.HiColor, 0x082567.
ClickHiColor == 533863

\* PixelMouseOver_.HiColor, 0xFFFFFF.
MouseOverHiColor == 16777215

\* Color >> 0 of a colour or of undefined, which converts to 0.
ToInt32(Color) == IF Color = undefined THEN 0 ELSE Color

\* The four bytes setPixelColor stores for Color: (Color >> 16) & 0xff,
\* (Color >> 8) & 0xff, (Color >> 0) & 0xff, 0xff.
Channels(Color) ==
  <<(ToInt32(Color) \div 65536) % 256, (ToInt32(Color) \div 256) % 256,
    ToInt32(Color) % 256, 255>>

\* (R << 16) | (G << 8) | (B << 0) of the bytes of a pixel.
ColorOf(Pixel) == (Pixel[1] * 65536) + (Pixel[2] * 256) + Pixel[3]

\* setPixelColor(ImgData, X, Y, Color): with X or Y undefined the offset is
\* NaN and no byte of the image is written.
setPixelColor(Img, X, Y, Color) ==
  IF X = undefined \/ Y = undefined \/ ((Y * Width_) + X) \notin DOMAIN Img
  THEN Img
  ELSE [Img EXCEPT ![(Y * Width_) + X] = Channels(Color)]

\* savePixelColor(ImgData, X, Y).
savePixelColor(Img, X, Y) == ColorOf(Img[(Y * Width_) + X])

\* Clairvoyance_t.ReversePalette_: the protection each colour of Names
\* names, a name being the protection value at its place in Names.
ReversePalette_ ==
  [Color \in {ColorOf(Palette_[P]) : P \in DOMAIN Palette_} |->
     CHOOSE P \in DOMAIN Palette_ : ColorOf(Palette_[P]) = Color]

\* this.ReversePalette_.get(Color).
ProtectionNamed(Color) ==
  IF Color \in DOMAIN ReversePalette_ THEN ReversePalette_[Color] ELSE undefined

\* Mutant of ClickedColor: the colour is always read from the canvas.
ClickedColorFromCanvas(Img, X, Y) == savePixelColor(Img, X, Y)

\* click: the colour kept for the clicked pixel, the mouse-over pixel's saved
\* colour when the click is on that pixel, the canvas's colour otherwise.
ClickedColor(Img, X, Y) ==
  IF PixelMouseOver_.X = X /\ PixelMouseOver_.Y = Y
  THEN PixelMouseOver_.Color
  ELSE savePixelColor(Img, X, Y)

\* The pixels of the canvas the mouse can be on.
CanvasCoordinates == (0 .. (Width_ - 1)) \X (0 .. (Height_ - 1))

\* Clairvoyance_t.click(X, Y), which throws before any change when the
\* address is undefined: the previous clicked pixel gets its colour back, the
\* new one is saved and highlighted, the click log is refreshed.
click ==
  /\ status = "viewed"
  /\ \E Coord \in CanvasCoordinates :
       \E Va \in {addressFromCoord(Coord[1], Coord[2])} :
         /\ Va # undefined
         /\ \E Restored \in {setPixelColor(ImgData, PixelClick_.X, PixelClick_.Y,
                                           PixelClick_.Color)} :
              \E Color \in {ClickedColor(Restored, Coord[1], Coord[2])} :
                /\ PixelClick_' = [X |-> Coord[1], Y |-> Coord[2], Color |-> Color]
                /\ ImgData' = setPixelColor(Restored, Coord[1], Coord[2], ClickHiColor)
                /\ ClickLog_' = <<Va, ProtectionNamed(Color)>>
  /\ UNCHANGED <<mem, DirectoryAddress_, Pml4_, Pml4e_, Pdpt_, Pdpte_, Pd_, Pde_,
                 Pt_, Pte_, Tape, LastVa, status, Out, Yielded, Filler, Runs, props,
                 regionVars, Record, Width_, Height_, Order_, Regions_,
                 PixelMouseOver_, MouseLog_, Hovered, curve, Walked, render>>

\* Clairvoyance_t.mouseMove(X, Y), which throws before any change when the
\* address is undefined: the previous mouse-over pixel gets its colour back
\* unless it is the clicked one; unless (X, Y) is the clicked pixel it
\* becomes the mouse-over pixel, saved and highlighted; the mouse log is
\* refreshed from PixelMouseOver_.Color.
mouseMove ==
  /\ status = "viewed"
  /\ \E Coord \in CanvasCoordinates :
       \E Va \in {addressFromCoord(Coord[1], Coord[2])} :
         /\ Va # undefined
         /\ \E Restored \in {IF \/ PixelMouseOver_.X # PixelClick_.X
                                \/ PixelMouseOver_.Y # PixelClick_.Y
                             THEN setPixelColor(ImgData, PixelMouseOver_.X,
                                                PixelMouseOver_.Y, PixelMouseOver_.Color)
                             ELSE ImgData} :
              /\ IF Coord[1] # PixelClick_.X \/ Coord[2] # PixelClick_.Y
                 THEN /\ PixelMouseOver_' =
                           [X |-> Coord[1], Y |-> Coord[2],
                            Color |-> savePixelColor(Restored, Coord[1], Coord[2])]
                      /\ ImgData' = setPixelColor(Restored, Coord[1], Coord[2],
                                                  MouseOverHiColor)
                 ELSE /\ PixelMouseOver_' = PixelMouseOver_
                      /\ ImgData' = Restored
              /\ MouseLog_' = <<Va, ProtectionNamed(PixelMouseOver_'.Color)>>
         /\ Hovered' = Coord
  /\ UNCHANGED <<mem, DirectoryAddress_, Pml4_, Pml4e_, Pdpt_, Pdpte_, Pd_, Pde_,
                 Pt_, Pte_, Tape, LastVa, status, Out, Yielded, Filler, Runs, props,
                 regionVars, Record, Width_, Height_, Order_, Regions_,
                 PixelClick_, ClickLog_, curve, Walked, render>>

\* main on a dump whose root table is in the dump and holds one entry, in
\* its first slot.
InitMouse == Init /\ Pml4_ # nullptr /\ mem[Pml4_][NumberEntries - 1] = ZeroPte

NextMouse == LoopEntry \/ LoopEnd \/ Emit \/ parseFile \/ click \/ mouseMove

SpecMouse == InitMouse /\ [][NextMouse]_vars

\* The image parseFile painted from the record.
Painted ==
  ParseLines(SubSeq(SplitLines, 2, Len(SplitLines)), 1, 0, <<>>,
             [Pixel \in 0 .. ((Width_ * Height_) - 1) |-> <<0, 0, 0, 0>>],
             Width_, Height_, Order_).ImgData

\* The pixel of ImgData at the coordinates of a pixel record or pair.
ClickedPixel == (PixelClick_.Y * Width_) + PixelClick_.X
HoveredPixel == (Hovered[2] * Width_) + Hovered[1]

\* C35: after parseFile and any sequence of click and mouseMove events, every
\* pixel of the canvas other than the last clicked one and the last hovered
\* one shows the colour parseFile painted, the last clicked pixel shows the
\* click highlight, and PixelClick_.Color is the colour parseFile painted for
\* the clicked pixel.
C35_HighlightsLeaveCanvasIntact ==
  status = "viewed" =>
    \E Img \in {Painted} :
      /\ \A Pixel \in DOMAIN ImgData :
           \/ PixelClick_.X # undefined /\ Pixel = ClickedPixel
           \/ Hovered # <<>> /\ Pixel = HoveredPixel
           \/ ImgData[Pixel] = Img[Pixel]
      /\ PixelClick_.X # undefined =>
           /\ ImgData[ClickedPixel] = Channels(ClickHiColor)
           /\ PixelClick_.Color = ColorOf(Img[ClickedPixel])

\* C35 witness: a click on the pixel under the mouse, after a click and a
\* move elsewhere, on a canvas of several pixels that are not all alike.
C35_Witness ==
  /\ status = "viewed"
  /\ PixelClick_.X # undefined /\ Hovered # <<>>
  /\ PixelMouseOver_.X = PixelClick_.X /\ PixelMouseOver_.Y = PixelClick_.Y
  /\ Hovered = <<PixelClick_.X, PixelClick_.Y>>
  /\ \E P, Q \in DOMAIN ImgData :
       /\ P # ClickedPixel /\ Q # ClickedPixel /\ ImgData[P] # ImgData[Q]

\* C36: the protection mouseMove(X, Y) writes to the mouse log next to the
\* address of (X, Y) is the protection of the colour parseFile painted at
\* (X, Y), also when (X, Y) is the clicked pixel.
C36_MouseLogNamesHoveredPixel ==
  (status = "viewed" /\ Hovered # <<>>) =>
    MouseLog_ = <<addressFromCoord(Hovered[1], Hovered[2]),
                  ProtectionNamed(ColorOf(Painted[HoveredPixel]))>>

====
